---- MODULE Spec2Model ----
(***************************************************************************)
(* Verification model of xdevice (openharmony/test_xdevice).               *)
(*                                                                         *)
(*   SchedSpec  the device-test scheduling engine: the dispatch loop of    *)
(*              Scheduler._dynamic_concurrent_execute, DriversThread,      *)
(*              QueueMonitorThread and Scheduler.terminate_cmd_exec.       *)
(*   DevSpec    ManagerDevice: concurrent apply_device / release_device    *)
(*              callers and the ManagedDeviceListener, with lock_con and   *)
(*              list_con.                                                  *)
(*   RerunSpec  CppTestDriver._do_test_run: full run, bulk rerun and       *)
(*              serial rerun of a module's expected tests.                 *)
(*   ActionSpec the perform_device_action decorator of ohos Device, with   *)
(*              the recover_state of the device a job holds.               *)
(*   SortSpec   discovery of devices under a device filter                 *)
(*              (ManagerDevice.append_device_by_sort).                     *)
(*   HostSpec   the host-test dispatch loop, Scheduler._host_test_execute. *)
(*   KitSpec    task-level kits: DriversThread._do_task_setup and          *)
(*              Scheduler._do_taskkit_teardown.                            *)
(*   ModSpec    module-level kits: do_module_kit_setup and                 *)
(*              do_module_kit_teardown around a driver's run.              *)
(*   DeccSpec   the dispatch loop in decc mode, with the pre-flight check  *)
(*              of the environment (Scheduler._decc_task_setup).           *)
(*   CompSpec   the dispatch loop with a component white list              *)
(*              (Scheduler.component_task_setup, ComponentKit).            *)
(*   HistSpec   the dispatch loop of a history retry                       *)
(*              (Scheduler.is_module_need_retry).                          *)
(*   ConfSpec   the config objects of the task and of its jobs             *)
(*              (DriversThread._get_driver_request).                       *)
(*   ParseSpec  the lite parsers and their listener calls.                 *)
(*   OhSpec     OHJSUnitTestDriver._do_test_run and its reruns.            *)
(*   JsSpec     JSUnitTestDriver: reading the device log and repairing     *)
(*              the suite marks.                                           *)
(*   ExistSpec  EnvironmentManager.check_device_exist on its own.          *)
(*   ConcSpec   Concurrent.concurrent_execute: worker results collected.   *)
(*   ExecSpec   Scheduler.exec_command: verb and exec type.                *)
(*   XmlSpec    the message attribute of an empty result file.             *)
(*   SptSpec    Scheduler.compare_spt_time on patch levels.                *)
(*   InstSpec   AppInstallKit.install_hap and retry_install_hap.           *)
(*   DevLiveSpec  DevSpec's lock steps under fair scheduling.              *)
(*   EnvSpec    EnvironmentManager.apply_environment and the device ids    *)
(*              of one Environment.                                        *)
(***************************************************************************)
EXTENDS Integers, Sequences, FiniteSets, TLC

\* ------------------------------------------------------------------ bounds
NJobs == 2
NDevices == 2
NAppliers == 2
NSerials == 2
NInstances == 2
MaxWaitTimes == 2
NTests == 4

\* drivers.py: FAILED_RUN_TEST_ATTEMPTS
FAILED_RUN_TEST_ATTEMPTS == 3

Jobs == 1..NJobs
Devices == 1..NDevices

VARIABLES
    \* ---- devices, as ManagerDevice and Device keep them
    devices_list,              \* ManagerDevice.devices_list
    device_allocation_state,   \* Device.device_allocation_state
    test_device_state,         \* Device.test_device_state
    task_state,                \* Device.task_state (ConfigConst.task_state)
    device_sn,                 \* Device.device_sn
    global_device_filter,      \* ManagerDevice.global_device_filter
    \* ---- Scheduler
    is_execute,                \* Scheduler.is_execute
    mode,                      \* Scheduler.mode
    job_options,               \* the device options of each (driver, test) pair
    test_drivers,              \* task.test_drivers
    sched_pc,                  \* position of the dispatch loop
    environment,               \* the local "environment" of the dispatch loop
    opt_idx,                   \* apply_environment: index of the next option
    th_pc,                     \* DriversThread: position of run()
    th_env,                    \* DriversThread.environment
    th_driver,                 \* DriversThread.run: "driver, test" were bound
    th_error,                  \* DriversThread.error_message is set
    current_driver_threads,    \* thread ids registered by the dispatcher
    message_queue,             \* queue.Queue of ExecuteMessage (thread ids)
    mon_pc,                    \* QueueMonitorThread: position of run()
    terminate_result,          \* Scheduler.terminate_result (items queued)
    term_pc,                   \* the caller of terminate_cmd_exec
    report,                    \* result/<module>.xml of each job ("" = no file)
    \* ---- ManagerDevice and its callers
    lock_con,                  \* owner of ManagerDevice.lock_con (-1 = free)
    list_con,                  \* owner of ManagerDevice.list_con (-1 = free)
    wait_times,                \* ManagerDevice.wait_times
    lock_wait,                 \* apply_device: the timeout given to lock_con.wait
    pc,                        \* position of each caller and of the listener
    p_opt,                     \* apply_device: device_option
    p_timeout,                 \* apply_device: timeout
    p_dev,                     \* handle_device_event: device
    p_event,                   \* handle_device_event: event
    p_old,                     \* handle_device_event: old_state
    p_new,                     \* handle_device_event: new_state
    p_ret,                     \* the caller of handle_device_event
    held,                      \* the device apply_device returned to a caller
    \* ---- CppTestDriver and RemoteCppTestRunner
    expected_tests,            \* the tests of the dry run
    rr_pc,                     \* position in _do_test_run
    remaining,                 \* the local expected_tests of the reruns
    serial_queue,              \* _rerun_serially: tests still to visit
    rerun_attempt,             \* RemoteCppTestRunner.rerun_attempt
    case_results,              \* case results in the report, per test
    blocked,                   \* tests marked by mark_test_as_blocked
    \* ---- Device and the perform_device_action decorator
    recover_state,             \* Device.recover_state (ConfigConst.recover_state)
    act_dev,                   \* the device the calling job holds (0 = none)
    da_pc,                     \* position in device_action
    da_kwargs,                 \* device_action: the retry and abort_on_exception kwargs
    da_left,                   \* device_action: iterations left of range(retry)
    invocations,               \* calls of func made by this device_action call
    da_exception,              \* device_action: the local "exception"
    da_recover,                \* device_action: outcome of recover_device()
    \* ---- task-level kits
    need_kit_setup,            \* Device.need_kit_setup (ConfigConst.need_kit_setup)
    kit_setups,                \* calls of kit.__setup__ per device and task kit
    used_devices,              \* used_devices of _device_test_execute
    kit_idx,                   \* _do_task_setup: index of the next task kit
    \* ---- module kits of one driver run
    kit_device_name,           \* kit.device_name of each module kit (0 = not set)
    module_kits,               \* Device.module_kits (ConfigConst.module_kits)
    run_flag,                  \* do_module_kit_setup: run_flag
    mk_pc,                     \* position in _run_cpp_test
    mk_kit,                    \* index of the kit the setup / teardown loop is at
    mk_dev,                    \* index of the device the loop is at
    mk_error,                  \* the exception that is propagating ("" = none)
    setup_invoked,             \* <<kit, device>> pairs __setup__ was called with
    teardown_invoked,          \* <<kit, device>> pairs __teardown__ was called with
    \* ---- the pre-flight device check
    device_label,              \* Device.label, where it is not "phone"
    task_unused_env,           \* task_unused_env of _dynamic_concurrent_execute
    \* ---- component tests
    device_components,         \* the components the cap file of each device lists
    component_mapper,          \* config.component_mapper: module -> <<subsystem, part>>
    support_component,         \* Device.support_component, for the devices that have it
    cache_subsystem,           \* ComponentKit.cache_subsystem
    cache_part,                \* ComponentKit.cache_part
    comp_warned,               \* modules logged as "skipped, no suitable component found"
    \* ---- history retry
    module_name,               \* source.module_name of each job, as its dotted parts
    unsuccessful_params,       \* params[ReportConst.unsuccessful_params]: entries per key
    history_result_exists,     \* os.path.exists(history_execute_result), per job
    \* ---- configuration objects
    heap,                      \* the testargs dict objects, by address
    task_config,               \* task.config
    job_config,                \* the config of each job's driver request
    \* ---- result parsers
    parser,                    \* the parser class
    fed,                       \* the lines given to __process__ so far
    events,                    \* the calls the listener has received
    current_suites,            \* state_machine.current_suites: none/started/completed
    current_suite,             \* state_machine.current_suite: none/started/completed
    parser_done,               \* __done__ has been called
    \* ---- OHJSUnitTestDriver
    oh_pc,                     \* position in _do_test_run and the reruns
    test_to_run,               \* the tests the dry run collected
    oh_expected,               \* expected_tests of the pass to come
    retry_times,               \* runner.retry_times
    passes,                    \* calls of runner.run so far
    notify_count,              \* calls of runner.notify_finished so far
    \* ---- JSUnitTestDriver, inner path
    js_pc,                     \* reading the log, repairing, analysed
    message_list,              \* the lines kept from the device log
    label_list,                \* <<labels, indexes>>: 1 suite start, -1 suite end
    is_suites_end,             \* the end mark was read
    \* ---- check_device_exist on its own
    exist_pc,                  \* "check" before the call, "checked" after
    device_options,            \* the device options of the call
    exist_result,              \* what the call returned
    \* ---- Concurrent.concurrent_execute
    cc_pc,                     \* submit, wait, collect, returned or raised
    cc_index,                  \* position of the submit and of the collect loop
    worker,                    \* each future: none, running, returned, raised
    logged,                    \* the workers executor_callback logged an error for
    result_list,               \* the results collected so far
    \* ---- Scheduler.exec_command
    exec_calls,                \* calls of exec_command so far
    exec_command_args,         \* <<command, options.exectype>> of the last call
    exec_outcome,              \* "returned", or the exception the last call raised
    exec_log,                  \* LOG.error lines written by exec_command
    exec_tasks,                \* calls of _exec_task
    \* ---- _create_empty_result_file
    xml_pc,                    \* "create", "written", "parsed"
    error_message,             \* the message given, as its characters
    message_attr,              \* the characters written between the quotes
    parsed_message,            \* the attribute value an XML parser reads
    \* ---- Scheduler.compare_spt_time
    spt_pc,                    \* "compare", "compared"
    kit_spt,                   \* the spt the kit declares
    device_spt,                \* the "Security Patch" of the device
    spt_result,                \* what compare_spt_time returned
    \* ---- AppInstallKit.install_hap / retry_install_hap
    inst_pc,                   \* "install", "retry", "after_loop", "done", "raised"
    hap_index,                 \* which hap file is being installed
    wait_count,                \* the loop variable of retry_install_hap
    sleeps,                    \* the seconds slept, in order
    exec_outs,                 \* the outputs of exec_cmd in the retry loop
    \* ---- Environment, as apply_environment fills it
    env_devices,               \* Environment.devices
    device_id,                 \* Device.device_id: <<label, number>>
    device_recorder,           \* Environment.device_recorder
    env_opt,                   \* the options apply_environment has visited
    env_found                  \* the device the listener found and has not handled

devVars == <<devices_list, device_allocation_state, test_device_state,
             task_state, device_sn, global_device_filter>>
schedVars == <<is_execute, mode, job_options, test_drivers, sched_pc,
               environment, opt_idx, th_pc, th_env, th_driver, th_error,
               current_driver_threads, message_queue, mon_pc,
               terminate_result, term_pc, report>>
mgrVars == <<lock_con, list_con, wait_times, lock_wait, pc, p_opt, p_timeout,
             p_dev, p_event, p_old, p_new, p_ret, held>>
rerunVars == <<expected_tests, rr_pc, remaining, serial_queue, rerun_attempt,
               case_results, blocked>>
actionVars == <<recover_state, act_dev, da_pc, da_kwargs, da_left,
                invocations, da_exception, da_recover>>
kitVars == <<need_kit_setup, kit_setups, used_devices, kit_idx>>
modVars == <<kit_device_name, module_kits, run_flag, mk_pc, mk_kit, mk_dev,
             mk_error, setup_invoked, teardown_invoked>>
deccVars == <<device_label, task_unused_env>>
compVars == <<device_components, component_mapper, support_component,
              cache_subsystem, cache_part, comp_warned>>
histVars == <<module_name, unsuccessful_params, history_result_exists>>
confVars == <<heap, task_config, job_config>>
parseVars == <<parser, fed, events, current_suites, current_suite, parser_done>>
ohVars == <<oh_pc, test_to_run, oh_expected, retry_times, passes, notify_count>>
jsVars == <<js_pc, message_list, label_list, is_suites_end>>
existVars == <<exist_pc, device_options, exist_result>>
concVars == <<cc_pc, cc_index, worker, logged, result_list>>
execVars == <<exec_calls, exec_command_args, exec_outcome, exec_log, exec_tasks>>
xmlVars == <<xml_pc, error_message, message_attr, parsed_message>>
sptVars == <<spt_pc, kit_spt, device_spt, spt_result>>
instVars == <<inst_pc, hap_index, wait_count, sleeps, exec_outs>>
envVars == <<env_devices, device_id, device_recorder, env_opt, env_found>>
vars == <<devVars, schedVars, mgrVars, rerunVars, actionVars, kitVars,
          modVars,
          deccVars,
          compVars,
          histVars,
          confVars,
          parseVars,
          ohVars,
          jsVars,
          existVars,
          concVars,
          execVars,
          xmlVars,
          sptVars,
          instVars,
          envVars>>

Appliers == 1..NAppliers
Listener == 0
Procs == {Listener} \cup Appliers
Serials == 1..NSerials
Instances == 1..NInstances
Tests == 1..NTests
Free == -1

Range(s) == {s[i] : i \in DOMAIN s}
Min(S) == CHOOSE x \in S : \A y \in S : x <= y

\* ------------------------------------------------ allocation state machine
CheckStates == {"checking_availability"}
OnlineEvents == {"CONNECTED_ONLINE", "STATE_CHANGE_ONLINE"}
OfflineEvents == {"CONNECTED_OFFLINE", "STATE_CHANGE_OFFLINE", "DISCONNECTED"}

\* handle_allocation_event(old_state, event): the defined (state, event)
\* pairs; every other pair returns the old state.
handle_allocation_event(old_state, event) ==
    CASE event \in OnlineEvents /\ old_state # "allocated"
            -> "checking_availability"
      [] event \in OfflineEvents /\ old_state # "allocated" -> "unknown"
      [] event = "ALLOCATE_REQUEST" /\ old_state = "available" -> "allocated"
      [] event = "FREE_AVAILABLE" /\ old_state = "allocated" -> "available"
      [] event = "FREE_UNAVAILABLE" /\ old_state = "allocated" -> "unknown"
      [] event = "AVAILABLE_CHECK_PASSED" /\ old_state \in CheckStates
            -> "available"
      [] event = "AVAILABLE_CHECK_IGNORED" /\ old_state \in CheckStates
            -> "unavailable"
      [] OTHER -> old_state

\* the (state, event) pairs the transition table defines
defined_pair(old_state, event) ==
    \/ event \in OnlineEvents \cup OfflineEvents /\ old_state # "allocated"
    \/ event = "ALLOCATE_REQUEST" /\ old_state = "available"
    \/ event \in {"FREE_AVAILABLE", "FREE_UNAVAILABLE"}
          /\ old_state = "allocated"
    \/ event \in {"AVAILABLE_CHECK_PASSED", "AVAILABLE_CHECK_IGNORED"}
          /\ old_state \in CheckStates

AllocationStates == {"available", "allocated", "checking_availability",
                     "unavailable", "unknown"}
DeviceEvents == OnlineEvents \cup OfflineEvents
                    \cup {"ALLOCATE_REQUEST", "FREE_AVAILABLE",
                          "FREE_UNAVAILABLE", "AVAILABLE_CHECK_PASSED",
                          "AVAILABLE_CHECK_IGNORED"}

\* ManagerDevice.handle_device_event: the allocation state written back for
\* a device with serial sn.
new_allocation_state(sn, old_state, event) ==
    LET new_state == handle_allocation_event(old_state, event)
    IN  IF new_state = "checking_availability"
        THEN handle_allocation_event(
                 new_state,
                 IF global_device_filter # <<>>
                    /\ sn \notin Range(global_device_filter)
                 THEN "AVAILABLE_CHECK_IGNORED"
                 ELSE "AVAILABLE_CHECK_PASSED")
        ELSE new_state

\* Device.label: the hdc devices of the pool are phones, unless the
\* device was given another label.
label(d) == IF d \in DOMAIN device_label THEN device_label[d] ELSE "phone"

\* DeviceSelectionOption.matches(device, allocate), for an option
\* [label, device_sn] and the allocation state das of the device.
matches_loose(option, d, das, allocate) ==
    /\ task_state[d]
    /\ (Len(option.device_sn) # 0 => device_sn[d] \in Range(option.device_sn))
    /\ (option.label # "" => option.label = label(d))

matches_any_task_state(option, d, das, allocate) ==
    /\ (allocate => das[d] = "available")
    /\ (~allocate => das[d] \in {"available", "allocated"})
    /\ (Len(option.device_sn) # 0 => device_sn[d] \in Range(option.device_sn))
    /\ (option.label # "" => option.label = label(d))

matches(option, d, das, allocate) ==
    /\ task_state[d]
    /\ (allocate => das[d] = "available")
    /\ (~allocate => das[d] \in {"available", "allocated"})
    /\ (Len(option.device_sn) # 0 => device_sn[d] \in Range(option.device_sn))
    /\ (option.label # "" => option.label = label(d))
    /\ ("required_component" \in DOMAIN option /\ d \in DOMAIN support_component)
           => \/ option.required_component[1] \in support_component[d][1]
              \/ option.required_component[2] \in support_component[d][2]

\* ManagerDevice.allocate_device_option: the first device of devices_list
\* that matches, 0 for None.
allocate_device_option(option, das) ==
    LET hits == {i \in DOMAIN devices_list :
                    matches(option, devices_list[i], das, TRUE)}
    IN  IF hits = {} THEN 0 ELSE devices_list[Min(hits)]

\* ManagerDevice.release_device for every device of an environment:
\* FREE_AVAILABLE when the device is ONLINE, FREE_UNAVAILABLE otherwise.
release_environment_skip(das, devs) == das

release_environment(das, devs) ==
    [d \in DOMAIN das |->
        IF d \in Range(devs) /\ d \in Range(devices_list)
        THEN new_allocation_state(
                 device_sn[d], das[d],
                 IF test_device_state[d] = "ONLINE"
                 THEN "FREE_AVAILABLE" ELSE "FREE_UNAVAILABLE")
        ELSE das[d]]

\* ManagerDevice.remove: devices whose state became unknown leave the list.
RECURSIVE remove_unknown(_, _)
remove_unknown(list, das) ==
    IF list = <<>> THEN <<>>
    ELSE IF das[Head(list)] = "unknown"
         THEN remove_unknown(Tail(list), das)
         ELSE <<Head(list)>> \o remove_unknown(Tail(list), das)

\* EnvironmentManager.check_device_exist: every option finds a device of
\* its own among the available or allocated ones.
check_device_exist_reuse(options, das, taken) ==
    \A i \in DOMAIN options :
        \E d \in Range(devices_list) : matches(options[i], d, das, FALSE)

RECURSIVE check_device_exist(_, _, _)
check_device_exist(options, das, taken) ==
    IF options = <<>> THEN TRUE
    ELSE LET hits == {i \in DOMAIN devices_list :
                         /\ devices_list[i] \notin taken
                         /\ matches(Head(options), devices_list[i], das, FALSE)}
         IN  IF hits = {} THEN FALSE
             ELSE check_device_exist(Tail(options), das,
                                     taken \cup {devices_list[Min(hits)]})

\* ----------------------------------------------------------- the scheduler
Option(l) == [label |-> l, device_sn |-> <<>>]
OptionProfiles == {<<Option("phone")>>,
                   <<Option("phone"), Option("phone")>>,
                   <<Option("tv")>>}

NoEnvironment == [none |-> TRUE, devices |-> <<>>]

\* the error message of a report created by check_result_report
DeviceErrorMessage == IF mode = "decc" THEN "Load Error[00104]"
                      ELSE "DeviceError"
TerminateMessage == "Execute Terminate[00300]"

\* utils.check_result_report: an existing report file is left as it is.
check_result_report(rep, j, message) ==
    IF rep[j] # "" THEN rep ELSE [rep EXCEPT ![j] = message]

\* Scheduler.report_not_executed(report_path, test_drivers, error_message)
RECURSIVE report_not_executed(_, _, _)
report_not_executed_first(rep, drivers, message) ==
    IF drivers = <<>> THEN rep
    ELSE check_result_report(rep, Head(drivers), message)

report_not_executed(rep, drivers, message) ==
    IF drivers = <<>> THEN rep
    ELSE report_not_executed(check_result_report(rep, Head(drivers), message),
                             Tail(drivers), message)

\* Scheduler._clear_not_executed: the reports after the queue is cleared.
clear_not_executed_report(rep, drivers) ==
    IF mode # "decc" THEN rep
    ELSE report_not_executed(rep, drivers, TerminateMessage)

\* Scheduler._handle_device_error: the queue after the head job is dropped.
handle_device_error_abort(drivers) == <<>>

handle_device_error_queue(drivers) == Tail(drivers)

\* the dispatch loops: "test_driver = test_drivers[0]"
last_test_driver(drivers) == drivers[Len(drivers)]

next_test_driver(drivers) == Head(drivers)

\* the scheduler's variables while ManagerDevice or a driver is looked at
\* on its own
SchedIdle ==
    /\ is_execute = TRUE
    /\ mode = "factory"
    /\ job_options = <<>>
    /\ test_drivers = <<>>
    /\ sched_pc = "done"
    /\ environment = [none |-> TRUE, devices |-> <<>>]
    /\ opt_idx = 1
    /\ th_pc = <<>>
    /\ th_env = <<>>
    /\ th_driver = <<>>
    /\ th_error = <<>>
    /\ current_driver_threads = {}
    /\ message_queue = <<>>
    /\ mon_pc = "ended"
    /\ terminate_result = 0
    /\ term_pc = "idle"
    /\ report = <<>>

\* ManagerDevice's locks and callers at rest
MgrIdle ==
    /\ lock_con = Free
    /\ list_con = Free
    /\ wait_times = 0
    /\ lock_wait = [p \in Procs |-> 0]
    /\ pc = [p \in Procs |-> "idle"]
    /\ p_opt = [p \in Procs |-> Option("")]
    /\ p_timeout = [p \in Procs |-> 0]
    /\ p_dev = [p \in Procs |-> 0]
    /\ p_event = [p \in Procs |-> ""]
    /\ p_old = [p \in Procs |-> ""]
    /\ p_new = [p \in Procs |-> ""]
    /\ p_ret = [p \in Procs |-> ""]
    /\ held = [p \in Procs |-> 0]

\* no test driver running
RerunIdle ==
    /\ expected_tests = {}
    /\ rr_pc = "done"
    /\ remaining = {}
    /\ serial_queue = <<>>
    /\ rerun_attempt = FAILED_RUN_TEST_ATTEMPTS
    /\ case_results = [t \in Tests |-> 0]
    /\ blocked = {}

\* no decorated device action in progress; recover_state is read by the
\* decorator and by recover_device only
NoKwargs == [retry_given |-> FALSE, retry |-> 0, abort_on_exception |-> FALSE]

ActionIdle ==
    /\ recover_state = <<>>
    /\ act_dev = 0
    /\ da_pc = "idle"
    /\ da_kwargs = NoKwargs
    /\ da_left = 0
    /\ invocations = 0
    /\ da_exception = ""
    /\ da_recover = "none"

\* no task kit configured
KitIdle ==
    /\ need_kit_setup = <<>>
    /\ kit_setups = <<>>
    /\ used_devices = {}
    /\ kit_idx = <<>>

\* no driver inside _run_cpp_test
ModIdle ==
    /\ kit_device_name = <<>>
    /\ module_kits = <<>>
    /\ run_flag = FALSE
    /\ mk_pc = "done"
    /\ mk_kit = 0
    /\ mk_dev = 0
    /\ mk_error = ""
    /\ setup_invoked = {}
    /\ teardown_invoked = {}

\* no device with a label of its own, no environment set aside
DeccIdle ==
    /\ device_label = <<>>
    /\ task_unused_env = {}

\* no component kit in the task
CompIdle ==
    /\ device_components = <<>>
    /\ component_mapper = <<>>
    /\ support_component = <<>>
    /\ cache_subsystem = {}
    /\ cache_part = {}
    /\ comp_warned = {}

\* no history_report_path in the task config
HistIdle ==
    /\ module_name = <<>>
    /\ unsuccessful_params = <<>>
    /\ history_result_exists = <<>>

\* no configuration object is followed
ConfIdle ==
    /\ heap = <<>>
    /\ task_config = <<>>
    /\ job_config = <<>>

\* no parser is fed
ParseIdle ==
    /\ parser = ""
    /\ fed = <<>>
    /\ events = <<>>
    /\ current_suites = "none"
    /\ current_suite = "none"
    /\ parser_done = FALSE

\* no OHJSUnit module is run
OhIdle ==
    /\ oh_pc = "idle"
    /\ test_to_run = {}
    /\ oh_expected = {}
    /\ retry_times = 1
    /\ passes = 0
    /\ notify_count = 0

\* no device log is read
JsIdle ==
    /\ js_pc = "idle"
    /\ message_list = <<>>
    /\ label_list = <<>>
    /\ is_suites_end = FALSE

\* check_device_exist is not followed on its own
ExistIdle ==
    /\ exist_pc = "idle"
    /\ device_options = <<>>
    /\ exist_result = FALSE

\* concurrent_execute is not called
ConcIdle ==
    /\ cc_pc = "idle"
    /\ cc_index = 0
    /\ worker = <<>>
    /\ logged = {}
    /\ result_list = <<>>

\* exec_command is not called
ExecIdle ==
    /\ exec_calls = 0
    /\ exec_command_args = <<>>
    /\ exec_outcome = ""
    /\ exec_log = 0
    /\ exec_tasks = 0

\* no empty result file is created
XmlIdle ==
    /\ xml_pc = "idle"
    /\ error_message = <<>>
    /\ message_attr = <<>>
    /\ parsed_message = <<>>

\* no security patch level is compared
SptIdle ==
    /\ spt_pc = "idle"
    /\ kit_spt = <<>>
    /\ device_spt = <<>>
    /\ spt_result = ""

\* no hap is installed
InstIdle ==
    /\ inst_pc = "idle"
    /\ hap_index = 0
    /\ wait_count = 0
    /\ sleeps = <<>>
    /\ exec_outs = <<>>

\* no environment is being filled
EnvIdle ==
    /\ env_devices = <<>>
    /\ device_id = <<>>
    /\ device_recorder = <<>>
    /\ env_opt = 0
    /\ env_found = 0

SchedInit ==
    /\ MgrIdle
    /\ EnvIdle
    /\ InstIdle
    /\ SptIdle
    /\ XmlIdle
    /\ ExecIdle
    /\ ConcIdle
    /\ ExistIdle
    /\ JsIdle
    /\ OhIdle
    /\ ParseIdle
    /\ ConfIdle
    /\ HistIdle
    /\ CompIdle
    /\ DeccIdle
    /\ ModIdle
    /\ RerunIdle
    /\ ActionIdle
    /\ KitIdle
    /\ devices_list = [i \in 1..NDevices |-> i]
    /\ device_allocation_state = [d \in Devices |-> "available"]
    /\ test_device_state = [d \in Devices |-> "ONLINE"]
    /\ task_state = [d \in Devices |-> TRUE]
    /\ device_sn = [d \in Devices |-> d]
    /\ global_device_filter = <<>>
    /\ is_execute = TRUE
    /\ mode \in {"decc", "factory"}
    /\ job_options \in [Jobs -> OptionProfiles]
    /\ test_drivers = [i \in 1..NJobs |-> i]
    /\ sched_pc = "loop"
    /\ environment = NoEnvironment
    /\ opt_idx = 1
    /\ th_pc = [j \in Jobs |-> "none"]
    /\ th_env = [j \in Jobs |-> <<>>]
    /\ th_driver = [j \in Jobs |-> FALSE]
    /\ th_error = [j \in Jobs |-> FALSE]
    /\ current_driver_threads = {}
    /\ message_queue = <<>>
    /\ mon_pc = "loop"
    /\ terminate_result = 0
    /\ term_pc = "idle"
    /\ report = [j \in Jobs |-> ""]

threadVars == <<th_pc, th_env, th_driver, th_error>>
monVars == <<current_driver_threads, message_queue, mon_pc, terminate_result>>

\* _dynamic_concurrent_execute: "while test_drivers:" with the terminate
\* test at the top of the body.
DispatchLoop ==
    /\ sched_pc = "loop"
    /\ IF test_drivers = <<>>
       THEN /\ sched_pc' = "wait"
            /\ UNCHANGED <<test_drivers, report, environment>>
       ELSE IF ~is_execute
       THEN /\ report' = clear_not_executed_report(report, test_drivers)
            /\ test_drivers' = <<>>
            /\ sched_pc' = "wait"
            /\ UNCHANGED environment
       ELSE /\ sched_pc' = "alloc"
            /\ environment' = NoEnvironment
            /\ UNCHANGED <<test_drivers, report>>
    /\ UNCHANGED <<mgrVars, rerunVars, actionVars, kitVars, devVars,
                   is_execute, mode, job_options, opt_idx, threadVars,
                   monVars, term_pc, modVars, deccVars, compVars, histVars,
                   confVars, parseVars, ohVars, jsVars, existVars, concVars,
                   execVars, xmlVars, sptVars, instVars, envVars>>

\* __allocate_environment__: the top of "while True".
AllocateTop ==
    /\ sched_pc = "alloc"
    /\ IF ~is_execute
       THEN /\ sched_pc' = "post"
            /\ UNCHANGED <<environment, opt_idx>>
       ELSE /\ sched_pc' = "apply"
            /\ environment' = [none |-> FALSE, devices |-> <<>>]
            /\ opt_idx' = 1
    /\ UNCHANGED <<mgrVars, rerunVars, actionVars, kitVars, devVars,
                   is_execute, mode, job_options, test_drivers, threadVars,
                   monVars, term_pc, report, modVars, deccVars, compVars,
                   histVars, confVars, parseVars, ohVars, jsVars, existVars,
                   concVars, execVars, xmlVars, sptVars, instVars, envVars>>

\* EnvironmentManager.apply_environment: apply_device for one option.
ApplyDevice ==
    /\ sched_pc = "apply"
    /\ LET options == job_options[Head(test_drivers)]
           device == allocate_device_option(options[opt_idx],
                                            device_allocation_state)
       IN  /\ IF device # 0
              THEN /\ device_allocation_state' =
                        [device_allocation_state EXCEPT ![device] =
                            new_allocation_state(device_sn[device], @,
                                                 "ALLOCATE_REQUEST")]
                   /\ environment' = [environment EXCEPT
                                         !.devices = Append(@, device)]
              ELSE UNCHANGED <<device_allocation_state, environment>>
           /\ opt_idx' = opt_idx + 1
           /\ sched_pc' = IF opt_idx = Len(options) THEN "applied" ELSE "apply"
    /\ UNCHANGED <<mgrVars, rerunVars, actionVars, kitVars, devices_list,
                   test_device_state, task_state, device_sn,
                   global_device_filter, is_execute, mode, job_options,
                   test_drivers, threadVars, monVars, term_pc, report,
                   modVars, deccVars, compVars, histVars, confVars, parseVars,
                   ohVars, jsVars, existVars, concVars, execVars, xmlVars,
                   sptVars, instVars, envVars>>

\* __allocate_environment__: the test of the environment that came back,
\* and _handle_device_error when DeviceError is raised.
CheckEnvironment ==
    /\ sched_pc = "applied"
    /\ LET options == job_options[Head(test_drivers)]
           released == release_environment(device_allocation_state,
                                           environment.devices)
       IN  IF Len(environment.devices) = Len(options)
           THEN /\ sched_pc' = "post"
                /\ UNCHANGED <<device_allocation_state, devices_list,
                               test_drivers, report>>
           ELSE /\ device_allocation_state' = released
                /\ devices_list' = remove_unknown(devices_list, released)
                /\ IF check_device_exist(options, released, {})
                   THEN /\ sched_pc' = "alloc"
                        /\ UNCHANGED <<test_drivers, report>>
                   ELSE /\ report' = report_not_executed(
                                         report, <<Head(test_drivers)>>,
                                         DeviceErrorMessage)
                        /\ test_drivers' =
                               handle_device_error_queue(test_drivers)
                        /\ sched_pc' = "loop"
    /\ UNCHANGED <<mgrVars, rerunVars, actionVars, kitVars, test_device_state,
                   task_state, device_sn, global_device_filter, is_execute,
                   mode, job_options, environment, opt_idx, threadVars,
                   monVars, term_pc, modVars, deccVars, compVars, histVars,
                   confVars, parseVars, ohVars, jsVars, existVars, concVars,
                   execVars, xmlVars, sptVars, instVars, envVars>>

\* _dynamic_concurrent_execute after __allocate_environment__ returned:
\* the second terminate test, then _start_driver_thread up to start().
StartDriverThread ==
    /\ sched_pc = "post"
    /\ LET j == next_test_driver(test_drivers)
           released == release_environment(device_allocation_state,
                                           environment.devices)
       IN  IF ~is_execute
           THEN /\ IF environment.none
                   THEN UNCHANGED <<device_allocation_state, devices_list>>
                   ELSE /\ device_allocation_state' = released
                        /\ devices_list' = remove_unknown(devices_list,
                                                          released)
                /\ sched_pc' = "loop"
                /\ UNCHANGED threadVars
           ELSE /\ th_pc' = [th_pc EXCEPT ![j] = "gate"]
                /\ th_env' = [th_env EXCEPT ![j] = environment.devices]
                /\ sched_pc' = "register"
                /\ UNCHANGED <<device_allocation_state, devices_list,
                               th_driver, th_error>>
    /\ UNCHANGED <<mgrVars, rerunVars, actionVars, kitVars, test_device_state,
                   task_state, device_sn, global_device_filter, is_execute,
                   mode, job_options, test_drivers, environment, opt_idx,
                   monVars, term_pc, report, modVars, deccVars, compVars,
                   histVars, confVars, parseVars, ohVars, jsVars, existVars,
                   concVars, execVars, xmlVars, sptVars, instVars, envVars>>

\* _start_driver_thread: current_driver_threads.setdefault(thread_id, ...)
\* and, back in the loop, test_drivers.pop(0).
RegisterThread ==
    /\ sched_pc = "register"
    /\ current_driver_threads' = current_driver_threads
                                     \cup {Head(test_drivers)}
    /\ test_drivers' = Tail(test_drivers)
    /\ sched_pc' = "loop"
    /\ UNCHANGED <<mgrVars, rerunVars, actionVars, kitVars, devVars,
                   is_execute, mode, job_options, environment, opt_idx,
                   threadVars, message_queue, mon_pc, terminate_result,
                   term_pc, report, modVars, deccVars, compVars, histVars,
                   confVars, parseVars, ohVars, jsVars, existVars, concVars,
                   execVars, xmlVars, sptVars, instVars, envVars>>

\* _dynamic_concurrent_execute: wait until the monitor thread is not alive.
WaitMonitor ==
    /\ sched_pc = "wait"
    /\ mon_pc \in {"ended", "crashed"}
    /\ sched_pc' = "done"
    /\ UNCHANGED <<mgrVars, rerunVars, actionVars, kitVars, devVars,
                   is_execute, mode, job_options, test_drivers, environment,
                   opt_idx, threadVars, monVars, term_pc, report, modVars,
                   deccVars, compVars, histVars, confVars, parseVars, ohVars,
                   jsVars, existVars, concVars, execVars, xmlVars, sptVars,
                   instVars, envVars>>

\* ------------------------------------------------------------ DriversThread
\* run(): "if self.test_driver and Scheduler.is_execute".
ThreadGate(j) ==
    /\ th_pc[j] = "gate"
    /\ IF is_execute
       THEN /\ th_pc' = [th_pc EXCEPT ![j] = "prepare"]
            /\ th_driver' = [th_driver EXCEPT ![j] = TRUE]
       ELSE /\ th_pc' = [th_pc EXCEPT ![j] = "finally"]
            /\ UNCHANGED th_driver
    /\ UNCHANGED <<mgrVars, rerunVars, actionVars, kitVars, devVars,
                   is_execute, mode, job_options, test_drivers, sched_pc,
                   environment, opt_idx, th_env, th_error, monVars, term_pc,
                   report, modVars, deccVars, compVars, histVars, confVars,
                   parseVars, ohVars, jsVars, existVars, concVars, execVars,
                   xmlVars, sptVars, instVars, envVars>>

\* run(): _get_driver_request and _do_task_setup, then the call of
\* driver.__execute__. The request is None under history retry when every
\* test passed; either step may raise.
ThreadPrepare(j) ==
    /\ th_pc[j] = "prepare"
    /\ \/ /\ th_pc' = [th_pc EXCEPT ![j] = "execute"]
          /\ UNCHANGED th_error
       \/ /\ th_pc' = [th_pc EXCEPT ![j] = "finally"]
          /\ UNCHANGED th_error
       \/ /\ th_pc' = [th_pc EXCEPT ![j] = "finally"]
          /\ th_error' = [th_error EXCEPT ![j] = TRUE]
    /\ UNCHANGED <<mgrVars, rerunVars, actionVars, kitVars, devVars,
                   is_execute, mode, job_options, test_drivers, sched_pc,
                   environment, opt_idx, th_env, th_driver, monVars, term_pc,
                   report, modVars, deccVars, compVars, histVars, confVars,
                   parseVars, ohVars, jsVars, existVars, concVars, execVars,
                   xmlVars, sptVars, instVars, envVars>>

\* driver.__execute__ returns or raises; its finally clause leaves a report
\* file behind (check_result_report).
ThreadExecute(j) ==
    /\ th_pc[j] = "execute"
    /\ \E raised \in BOOLEAN :
          th_error' = [th_error EXCEPT ![j] = raised]
    /\ th_pc' = [th_pc EXCEPT ![j] = "finally"]
    /\ report' = check_result_report(report, j, "result")
    /\ UNCHANGED <<mgrVars, rerunVars, actionVars, kitVars, devVars,
                   is_execute, mode, job_options, test_drivers, sched_pc,
                   environment, opt_idx, th_env, th_driver, monVars, term_pc,
                   modVars, deccVars, compVars, histVars, confVars, parseVars,
                   ohVars, jsVars, existVars, concVars, execVars, xmlVars,
                   sptVars, instVars, envVars>>

\* _handle_finally up to __free_environment__: driver.__result__() and
\* _inherit_execute_result run first, when driver and test are bound, and
\* an exception they raise leaves run() at once.
ThreadFinally(j) ==
    /\ th_pc[j] = "finally"
    /\ \/ /\ th_driver[j]
          /\ th_pc' = [th_pc EXCEPT ![j] = "died"]
          /\ UNCHANGED <<device_allocation_state, devices_list>>
       \/ /\ th_pc' = [th_pc EXCEPT ![j] = "put"]
          /\ LET released == release_environment(device_allocation_state,
                                                 th_env[j])
             IN  /\ device_allocation_state' = released
                 /\ devices_list' = remove_unknown(devices_list, released)
    /\ UNCHANGED <<mgrVars, rerunVars, actionVars, kitVars, test_device_state,
                   task_state, device_sn, global_device_filter, is_execute,
                   mode, job_options, test_drivers, sched_pc, environment,
                   opt_idx, th_env, th_driver, th_error, monVars, term_pc,
                   report, modVars, deccVars, compVars, histVars, confVars,
                   parseVars, ohVars, jsVars, existVars, concVars, execVars,
                   xmlVars, sptVars, instVars, envVars>>

\* _handle_finally: self.message_queue.put(execute_message); run() is
\* over and the fields of the thread object are not read again.
ThreadPut(j) ==
    /\ th_pc[j] = "put"
    /\ message_queue' = Append(message_queue, j)
    /\ th_pc' = [th_pc EXCEPT ![j] = "ended"]
    /\ th_env' = [th_env EXCEPT ![j] = <<>>]
    /\ th_driver' = [th_driver EXCEPT ![j] = FALSE]
    /\ th_error' = [th_error EXCEPT ![j] = FALSE]
    /\ UNCHANGED <<mgrVars, rerunVars, actionVars, kitVars, devVars,
                   is_execute, mode, job_options, test_drivers, sched_pc,
                   environment, opt_idx, current_driver_threads, mon_pc,
                   terminate_result, term_pc, report, modVars, deccVars,
                   compVars, histVars, confVars, parseVars, ohVars, jsVars,
                   existVars, concVars, execVars, xmlVars, sptVars, instVars,
                   envVars>>

\* ------------------------------------------------------- QueueMonitorThread
\* run(): "while self.test_drivers or self.current_driver_threads"; with no
\* registered thread the loop sleeps and tests again.
monitor_loop(drivers, threads) == drivers # <<>> \/ threads # {}

MonitorLoop ==
    /\ mon_pc = "loop"
    /\ IF monitor_loop(test_drivers, current_driver_threads)
       THEN /\ current_driver_threads # {}
            /\ mon_pc' = "get"
       ELSE mon_pc' = "final"
    /\ UNCHANGED <<mgrVars, rerunVars, actionVars, kitVars, devVars,
                   is_execute, mode, job_options, test_drivers, sched_pc,
                   environment, opt_idx, threadVars, current_driver_threads,
                   message_queue, terminate_result, term_pc, report, modVars,
                   deccVars, compVars, histVars, confVars, parseVars, ohVars,
                   jsVars, existVars, concVars, execVars, xmlVars, sptVars,
                   instVars, envVars>>

\* run(): message_queue.get() and current_driver_threads.pop(thread_id),
\* which raises KeyError for an id that is not registered.
MonitorGet ==
    /\ mon_pc = "get"
    /\ message_queue # <<>>
    /\ message_queue' = Tail(message_queue)
    /\ IF Head(message_queue) \in current_driver_threads
       THEN /\ current_driver_threads' =
                   current_driver_threads \ {Head(message_queue)}
            /\ mon_pc' = "loop"
       ELSE /\ mon_pc' = "crashed"
            /\ UNCHANGED current_driver_threads
    /\ UNCHANGED <<mgrVars, rerunVars, actionVars, kitVars, devVars,
                   is_execute, mode, job_options, test_drivers, sched_pc,
                   environment, opt_idx, threadVars, terminate_result,
                   term_pc, report, modVars, deccVars, compVars, histVars,
                   confVars, parseVars, ohVars, jsVars, existVars, concVars,
                   execVars, xmlVars, sptVars, instVars, envVars>>

\* run(): after the loop, "if not Scheduler.is_execute: put".
MonitorFinal ==
    /\ mon_pc = "final"
    /\ mon_pc' = "ended"
    /\ terminate_result' = IF ~is_execute THEN terminate_result + 1
                           ELSE terminate_result
    /\ UNCHANGED <<mgrVars, rerunVars, actionVars, kitVars, devVars,
                   is_execute, mode, job_options, test_drivers, sched_pc,
                   environment, opt_idx, threadVars, current_driver_threads,
                   message_queue, term_pc, report, modVars, deccVars,
                   compVars, histVars, confVars, parseVars, ohVars, jsVars,
                   existVars, concVars, execVars, xmlVars, sptVars, instVars,
                   envVars>>

\* ------------------------------------------------------- terminate_cmd_exec
\* Scheduler.is_execute = False, then the caller blocks on terminate_result.
TerminateCmdExec ==
    /\ term_pc = "idle"
    /\ sched_pc # "done"
    /\ is_execute' = FALSE
    /\ term_pc' = "waiting"
    /\ UNCHANGED <<mgrVars, rerunVars, actionVars, kitVars, devVars, mode,
                   job_options, test_drivers, sched_pc, environment, opt_idx,
                   threadVars, monVars, report, modVars, deccVars, compVars,
                   histVars, confVars, parseVars, ohVars, jsVars, existVars,
                   concVars, execVars, xmlVars, sptVars, instVars, envVars>>

\* terminate_result.get() returns.
TerminateReturn ==
    /\ term_pc = "waiting"
    /\ terminate_result > 0
    /\ terminate_result' = terminate_result - 1
    /\ term_pc' = "returned"
    /\ UNCHANGED <<mgrVars, rerunVars, actionVars, kitVars, devVars,
                   is_execute, mode, job_options, test_drivers, sched_pc,
                   environment, opt_idx, threadVars, current_driver_threads,
                   message_queue, mon_pc, report, modVars, deccVars, compVars,
                   histVars, confVars, parseVars, ohVars, jsVars, existVars,
                   concVars, execVars, xmlVars, sptVars, instVars, envVars>>

SchedProgress ==
    \/ DispatchLoop \/ AllocateTop \/ ApplyDevice \/ CheckEnvironment
    \/ StartDriverThread \/ RegisterThread \/ WaitMonitor
    \/ \E j \in Jobs : ThreadGate(j)
    \/ \E j \in Jobs : ThreadPrepare(j)
    \/ \E j \in Jobs : ThreadExecute(j)
    \/ \E j \in Jobs : ThreadFinally(j)
    \/ \E j \in Jobs : ThreadPut(j)
    \/ MonitorLoop \/ MonitorGet \/ MonitorFinal
    \/ TerminateReturn

SchedNext == SchedProgress \/ TerminateCmdExec

SchedSpec == SchedInit /\ [][SchedNext]_vars

\* ---------------------------------------------------------------- host tests
NHostJobs == 7
HostJobs == 1..NHostJobs

\* _host_test_execute: "if len(current_driver_threads) > 5"
host_thread_limit == 5

\* driver threads between start() and the end of run()
InFlightPcs == {"gate", "prepare", "execute", "finally", "put"}

HostInit ==
    /\ MgrIdle
    /\ EnvIdle
    /\ InstIdle
    /\ SptIdle
    /\ XmlIdle
    /\ ExecIdle
    /\ ConcIdle
    /\ ExistIdle
    /\ JsIdle
    /\ OhIdle
    /\ ParseIdle
    /\ ConfIdle
    /\ HistIdle
    /\ CompIdle
    /\ DeccIdle
    /\ ModIdle
    /\ RerunIdle
    /\ ActionIdle
    /\ KitIdle
    /\ devices_list = <<>>
    /\ device_allocation_state = <<>>
    /\ test_device_state = <<>>
    /\ task_state = <<>>
    /\ device_sn = <<>>
    /\ global_device_filter = <<>>
    /\ is_execute = TRUE
    /\ mode = "factory"
    /\ job_options = [j \in HostJobs |-> <<>>]
    /\ test_drivers = [i \in 1..NHostJobs |-> i]
    /\ sched_pc = "loop"
    /\ environment = NoEnvironment
    /\ opt_idx = 1
    /\ th_pc = [j \in HostJobs |-> "none"]
    /\ th_env = [j \in HostJobs |-> <<>>]
    /\ th_driver = [j \in HostJobs |-> FALSE]
    /\ th_error = [j \in HostJobs |-> FALSE]
    /\ current_driver_threads = {}
    /\ message_queue = <<>>
    /\ mon_pc = "loop"
    /\ terminate_result = 0
    /\ term_pc = "idle"
    /\ report = [j \in HostJobs |-> ""]

\* _host_test_execute: "while test_drivers:" with the capacity test and
\* the terminate test at the top of the body.
HostDispatchLoop ==
    /\ sched_pc = "loop"
    /\ IF test_drivers = <<>>
       THEN /\ sched_pc' = "wait"
            /\ UNCHANGED <<test_drivers, report>>
       ELSE IF Cardinality(current_driver_threads) > host_thread_limit
       THEN /\ sched_pc' = "sleep"
            /\ UNCHANGED <<test_drivers, report>>
       ELSE IF ~is_execute
       THEN /\ report' = clear_not_executed_report(report, test_drivers)
            /\ test_drivers' = <<>>
            /\ sched_pc' = "wait"
       ELSE /\ sched_pc' = "post"
            /\ UNCHANGED <<test_drivers, report>>
    /\ UNCHANGED <<mgrVars, rerunVars, actionVars, kitVars, devVars,
                   is_execute, mode, job_options, environment, opt_idx,
                   threadVars, monVars, term_pc, modVars, deccVars, compVars,
                   histVars, confVars, parseVars, ohVars, jsVars, existVars,
                   concVars, execVars, xmlVars, sptVars, instVars, envVars>>

\* _host_test_execute: time.sleep(3) is over, "continue".
HostSleep ==
    /\ sched_pc = "sleep"
    /\ sched_pc' = "loop"
    /\ UNCHANGED <<mgrVars, rerunVars, actionVars, kitVars, devVars,
                   is_execute, mode, job_options, test_drivers, environment,
                   opt_idx, threadVars, monVars, term_pc, report, modVars,
                   deccVars, compVars, histVars, confVars, parseVars, ohVars,
                   jsVars, existVars, concVars, execVars, xmlVars, sptVars,
                   instVars, envVars>>

\* _host_test_execute: _start_driver_thread with no environment, up to
\* start().
HostStartDriverThread ==
    /\ sched_pc = "post"
    /\ th_pc' = [th_pc EXCEPT ![next_test_driver(test_drivers)] = "gate"]
    /\ sched_pc' = "register"
    /\ UNCHANGED <<mgrVars, rerunVars, actionVars, kitVars, devVars,
                   is_execute, mode, job_options, test_drivers, environment,
                   opt_idx, th_env, th_driver, th_error, monVars, term_pc,
                   report, modVars, deccVars, compVars, histVars, confVars,
                   parseVars, ohVars, jsVars, existVars, concVars, execVars,
                   xmlVars, sptVars, instVars, envVars>>

\* DriversThread.run of a host test, from its first statement to the
\* put of _handle_finally: the driver runs and leaves its report; there is
\* no environment to free. An exception of driver.__result__() or
\* _inherit_execute_result ends the thread. No terminate command is given
\* during the host run, is_execute stays true.
HostThreadRun(j) ==
    /\ th_pc[j] = "gate"
    /\ \/ /\ th_pc' = [th_pc EXCEPT ![j] = "put"]
          /\ report' = check_result_report(report, j, "result")
       \/ /\ th_pc' = [th_pc EXCEPT ![j] = "died"]
          /\ report' = check_result_report(report, j, "result")
    /\ UNCHANGED <<mgrVars, rerunVars, actionVars, kitVars, devVars,
                   is_execute, mode, job_options, test_drivers, sched_pc,
                   environment, opt_idx, th_env, th_driver, th_error, monVars,
                   term_pc, modVars, deccVars, compVars, histVars, confVars,
                   parseVars, ohVars, jsVars, existVars, concVars, execVars,
                   xmlVars, sptVars, instVars, envVars>>

HostNext ==
    \/ HostDispatchLoop \/ HostSleep \/ HostStartDriverThread
    \/ RegisterThread \/ WaitMonitor
    \/ \E j \in HostJobs : HostThreadRun(j)
    \/ \E j \in HostJobs : ThreadPut(j)
    \/ MonitorLoop \/ MonitorGet \/ MonitorFinal

HostSpec == HostInit /\ [][HostNext]_vars

\* ------------------------------------------------------------ ManagerDevice
DevOptions == {Option("phone")}
                  \cup {[label |-> "phone", device_sn |-> <<sn>>] :
                           sn \in Serials}

\* apply_device(device_option, timeout=10): the default and a timeout
\* shorter than the first wait
apply_device_timeout == 10
MinTimeout == 3
Timeouts == {MinTimeout, apply_device_timeout}

\* ManagerDevice.find_device: the first device of the list with this
\* serial, 0 for None.
find_device(sn) ==
    LET hits == {i \in DOMAIN devices_list : device_sn[devices_list[i]] = sn}
    IN  IF hits = {} THEN 0 ELSE devices_list[Min(hits)]

\* append_device_by_sort: dict(zip(global_device_filter, 1..n))[sn]
filter_index(sn) ==
    CHOOSE i \in DOMAIN global_device_filter :
        /\ global_device_filter[i] = sn
        /\ \A k \in DOMAIN global_device_filter :
               global_device_filter[k] = sn => k <= i

\* ManagerDevice.append_device_by_sort, sn being the serials of the
\* devices once the new one has its own.
append_device_at_end(list, d, sn) == Append(list, d)

append_device_by_sort(list, d, sn) ==
    IF \/ global_device_filter = <<>>
       \/ list = <<>>
       \/ sn[d] \notin Range(global_device_filter)
    THEN Append(list, d)
    ELSE LET stops == {i \in DOMAIN list :
                          \/ sn[list[i]] \notin Range(global_device_filter)
                          \/ filter_index(sn[d]) < filter_index(sn[list[i]])}
         IN  IF stops = {} THEN Append(list, d)
             ELSE SubSeq(list, 1, Min(stops) - 1) \o <<d>>
                      \o SubSeq(list, Min(stops), Len(list))

\* list.remove(device)
remove(list, d) == SelectSeq(list, LAMBDA x : x # d)

DevInit ==
    /\ SchedIdle
    /\ EnvIdle
    /\ InstIdle
    /\ SptIdle
    /\ XmlIdle
    /\ ExecIdle
    /\ ConcIdle
    /\ ExistIdle
    /\ JsIdle
    /\ OhIdle
    /\ ParseIdle
    /\ ConfIdle
    /\ HistIdle
    /\ CompIdle
    /\ DeccIdle
    /\ ModIdle
    /\ RerunIdle
    /\ MgrIdle
    /\ ActionIdle
    /\ KitIdle
    /\ devices_list = <<>>
    /\ device_allocation_state = [d \in Instances |-> "available"]
    /\ test_device_state = [d \in Instances |-> "NOT_AVAILABLE"]
    /\ task_state = [d \in Instances |-> TRUE]
    /\ device_sn = [d \in Instances |-> 0]
    /\ global_device_filter \in {<<>>, <<1>>}

\* ManagedDeviceListener.device_connected / device_changed up to the call
\* of handle_device_event: find_or_create (under list_con) and the new
\* test_device_state.
ListenerFound(sn, st, event) ==
    /\ list_con = Free
    /\ LET found == find_device(sn)
           fresh == {i \in DOMAIN device_sn : device_sn[i] = 0}
           d == IF found # 0 THEN found ELSE Min(fresh)
       IN  /\ found = 0 => fresh # {}
           /\ device_sn' = [device_sn EXCEPT ![d] = sn]
           /\ devices_list' =
                  IF found # 0 THEN devices_list
                  ELSE append_device_by_sort(devices_list, d, device_sn')
           /\ test_device_state' = [test_device_state EXCEPT ![d] = st]
           /\ p_dev' = [p_dev EXCEPT ![Listener] = d]
    /\ p_event' = [p_event EXCEPT ![Listener] = event]
    /\ p_ret' = [p_ret EXCEPT ![Listener] = "event"]
    /\ pc' = [pc EXCEPT ![Listener] = "hde_read"]
    /\ UNCHANGED <<schedVars, rerunVars, actionVars, kitVars,
                   device_allocation_state, task_state, global_device_filter,
                   lock_con, list_con, wait_times, lock_wait, p_opt,
                   p_timeout, p_old, p_new, held, modVars, deccVars, compVars,
                   histVars, confVars, parseVars, ohVars, jsVars, existVars,
                   concVars, execVars, xmlVars, sptVars, instVars, envVars>>

DeviceConnected(sn, st) ==
    /\ pc[Listener] = "idle"
    /\ ListenerFound(sn, st, IF st = "ONLINE" THEN "CONNECTED_ONLINE"
                             ELSE "CONNECTED_OFFLINE")

DeviceChanged(sn, st) ==
    /\ pc[Listener] = "idle"
    /\ ListenerFound(sn, st, IF st = "ONLINE" THEN "STATE_CHANGE_ONLINE"
                             ELSE "STATE_CHANGE_OFFLINE")

\* ManagedDeviceListener.device_disconnected: find (under list_con), then
\* handle_device_event(DISCONNECTED) for a device that was found.
DeviceDisconnected(sn) ==
    /\ pc[Listener] = "idle"
    /\ list_con = Free
    /\ find_device(sn) # 0
    /\ test_device_state' = [test_device_state EXCEPT
                                ![find_device(sn)] = "NOT_AVAILABLE"]
    /\ p_dev' = [p_dev EXCEPT ![Listener] = find_device(sn)]
    /\ p_event' = [p_event EXCEPT ![Listener] = "DISCONNECTED"]
    /\ p_ret' = [p_ret EXCEPT ![Listener] = "event"]
    /\ pc' = [pc EXCEPT ![Listener] = "hde_read"]
    /\ UNCHANGED <<schedVars, rerunVars, actionVars, kitVars, devices_list,
                   device_allocation_state, task_state, device_sn,
                   global_device_filter, lock_con, list_con, wait_times,
                   lock_wait, p_opt, p_timeout, p_old, p_new, held, modVars,
                   deccVars, compVars, histVars, confVars, parseVars, ohVars,
                   jsVars, existVars, concVars, execVars, xmlVars, sptVars,
                   instVars, envVars>>

\* handle_device_event: old_state is read and new_state computed.
HandleRead(p) ==
    /\ pc[p] = "hde_read"
    /\ p_old' = [p_old EXCEPT ![p] = device_allocation_state[p_dev[p]]]
    /\ p_new' = [p_new EXCEPT ![p] =
                    new_allocation_state(device_sn[p_dev[p]],
                                         device_allocation_state[p_dev[p]],
                                         p_event[p])]
    /\ pc' = [pc EXCEPT ![p] = "hde_write"]
    /\ UNCHANGED <<schedVars, rerunVars, actionVars, kitVars, devVars,
                   lock_con, list_con, wait_times, lock_wait, p_opt,
                   p_timeout, p_dev, p_event, p_ret, held, modVars, deccVars,
                   compVars, histVars, confVars, parseVars, ohVars, jsVars,
                   existVars, concVars, execVars, xmlVars, sptVars, instVars,
                   envVars>>

\* handle_device_event: "if old_state != new_state:
\* device.device_allocation_state = new_state".
write_allocation_state_always(das, d, old_state, new_state) ==
    [das EXCEPT ![d] = new_state]

write_allocation_state(das, d, old_state, new_state) ==
    IF old_state # new_state THEN [das EXCEPT ![d] = new_state] ELSE das

HandleWrite(p) ==
    /\ pc[p] = "hde_write"
    /\ device_allocation_state' =
           write_allocation_state(device_allocation_state, p_dev[p],
                                  p_old[p], p_new[p])
    /\ pc' = [pc EXCEPT ![p] =
                 IF p_old[p] # p_new[p] /\ p_new[p] = "available"
                 THEN "hde_notify" ELSE "hde_remove"]
    /\ UNCHANGED <<schedVars, rerunVars, actionVars, kitVars, devices_list,
                   test_device_state, task_state, device_sn,
                   global_device_filter, lock_con, list_con, wait_times,
                   lock_wait, p_opt, p_timeout, p_dev, p_event, p_old, p_new,
                   p_ret, held, modVars, deccVars, compVars, histVars,
                   confVars, parseVars, ohVars, jsVars, existVars, concVars,
                   execVars, xmlVars, sptVars, instVars, envVars>>

\* handle_device_event: lock_con.acquire(); notify_all(); release().
HandleNotify(p) ==
    /\ pc[p] = "hde_notify"
    /\ lock_con = Free
    /\ pc' = [pc EXCEPT ![p] = "hde_remove"]
    /\ UNCHANGED <<schedVars, rerunVars, actionVars, kitVars, devVars,
                   lock_con, list_con, wait_times, lock_wait, p_opt,
                   p_timeout, p_dev, p_event, p_old, p_new, p_ret, held,
                   modVars, deccVars, compVars, histVars, confVars, parseVars,
                   ohVars, jsVars, existVars, concVars, execVars, xmlVars,
                   sptVars, instVars, envVars>>

\* handle_device_event: a device whose state is unknown is removed from
\* devices_list (under list_con; ValueError when it is not in the list);
\* then the caller goes on: allocate_device_option and apply_device return
\* the device and give back both locks, release_device gives back
\* list_con, the listener returns.
HandleRemove(p) ==
    /\ pc[p] = "hde_remove"
    /\ LET d == p_dev[p]
           unknown == device_allocation_state[d] = "unknown"
           raised == unknown /\ d \notin Range(devices_list)
       IN  /\ unknown => list_con \in {Free, p}
           /\ devices_list' = IF unknown THEN remove(devices_list, d)
                              ELSE devices_list
           /\ CASE p_ret[p] = "allocate" ->
                     /\ list_con' = Free
                     /\ lock_con' = Free
                     /\ held' = [held EXCEPT ![p] = IF raised THEN 0 ELSE d]
                     /\ pc' = [pc EXCEPT ![p] = IF raised THEN "idle"
                                                ELSE "holding"]
                [] p_ret[p] = "release" ->
                     /\ list_con' = Free
                     /\ held' = [held EXCEPT ![p] = 0]
                     /\ pc' = [pc EXCEPT ![p] = "idle"]
                     /\ UNCHANGED lock_con
                [] OTHER ->
                     /\ pc' = [pc EXCEPT ![p] = "idle"]
                     /\ UNCHANGED <<list_con, lock_con, held>>
    /\ p_opt' = [p_opt EXCEPT ![p] = Option("")]
    /\ p_timeout' = [p_timeout EXCEPT ![p] = 0]
    /\ p_dev' = [p_dev EXCEPT ![p] = 0]
    /\ p_event' = [p_event EXCEPT ![p] = ""]
    /\ p_old' = [p_old EXCEPT ![p] = ""]
    /\ p_new' = [p_new EXCEPT ![p] = ""]
    /\ p_ret' = [p_ret EXCEPT ![p] = ""]
    /\ UNCHANGED <<schedVars, rerunVars, actionVars, kitVars,
                   device_allocation_state, test_device_state, task_state,
                   device_sn, global_device_filter, wait_times, lock_wait,
                   modVars, deccVars, compVars, histVars, confVars, parseVars,
                   ohVars, jsVars, existVars, concVars, execVars, xmlVars,
                   sptVars, instVars, envVars>>

\* ManagerDevice.apply_device: lock_con.acquire()
ApplyBegin(p, option, timeout) ==
    /\ pc[p] = "idle"
    /\ held[p] = 0
    /\ lock_con = Free
    /\ wait_times + 2 <= MaxWaitTimes
    /\ lock_con' = p
    /\ p_opt' = [p_opt EXCEPT ![p] = option]
    /\ p_timeout' = [p_timeout EXCEPT ![p] = timeout]
    /\ pc' = [pc EXCEPT ![p] = "scan1"]
    /\ UNCHANGED <<schedVars, rerunVars, actionVars, kitVars, devVars,
                   list_con, wait_times, lock_wait, p_dev, p_event, p_old,
                   p_new, p_ret, held, modVars, deccVars, compVars, histVars,
                   confVars, parseVars, ohVars, jsVars, existVars, concVars,
                   execVars, xmlVars, sptVars, instVars, envVars>>

\* apply_device: the timeout of lock_con.wait, "wait(timeout) if
\* wait_times * 2 > timeout else wait(wait_times * 2)"
wait_timeout_doubled(timeout, times) == times * 2

wait_timeout(timeout, times) ==
    IF times * 2 > timeout THEN timeout ELSE times * 2

\* apply_device when allocate_device_option returned None: the first time
\* wait_times grows and the caller waits on lock_con, the second time
\* apply_device returns None.
NoDevice(p) ==
    /\ lock_con' = Free
    /\ IF pc[p] = "scan1"
       THEN /\ wait_times' = wait_times + 2
            /\ lock_wait' = [lock_wait EXCEPT ![p] =
                                wait_timeout(p_timeout[p], wait_times')]
            /\ pc' = [pc EXCEPT ![p] = "waiting"]
            /\ UNCHANGED <<p_opt, p_timeout>>
       ELSE /\ pc' = [pc EXCEPT ![p] = "idle"]
            /\ p_opt' = [p_opt EXCEPT ![p] = Option("")]
            /\ p_timeout' = [p_timeout EXCEPT ![p] = 0]
            /\ UNCHANGED <<wait_times, lock_wait>>

\* allocate_device_option with list_con acquired: the scan of devices_list.
ScanMatch(p) ==
    /\ pc[p] \in {"scan1", "scan2"}
    /\ list_con = Free
    /\ LET device == allocate_device_option(p_opt[p],
                                            device_allocation_state)
       IN  IF device # 0
           THEN /\ list_con' = p
                /\ p_dev' = [p_dev EXCEPT ![p] = device]
                /\ p_event' = [p_event EXCEPT ![p] = "ALLOCATE_REQUEST"]
                /\ p_ret' = [p_ret EXCEPT ![p] = "allocate"]
                /\ pc' = [pc EXCEPT ![p] = "hde_read"]
                /\ UNCHANGED <<lock_con, wait_times, lock_wait, p_opt, p_timeout>>
           ELSE /\ NoDevice(p)
                /\ UNCHANGED <<list_con, p_dev, p_event, p_ret>>
    /\ UNCHANGED <<schedVars, rerunVars, actionVars, kitVars, devVars, p_old,
                   p_new, held, modVars, deccVars, compVars, histVars,
                   confVars, parseVars, ohVars, jsVars, existVars, concVars,
                   execVars, xmlVars, sptVars, instVars, envVars>>

\* allocate_device_option: list_con.acquire() without the timeout never
\* gives up
ScanWaitsForever(p) ==
    /\ FALSE
    /\ UNCHANGED vars

\* allocate_device_option: list_con.acquire(timeout=5) timed out.
ScanTimeout(p) ==
    /\ pc[p] \in {"scan1", "scan2"}
    /\ list_con \notin {Free, p}
    /\ NoDevice(p)
    /\ UNCHANGED <<schedVars, rerunVars, actionVars, kitVars, devVars,
                   list_con, p_dev, p_event, p_old, p_new, p_ret, held,
                   modVars, deccVars, compVars, histVars, confVars, parseVars,
                   ohVars, jsVars, existVars, concVars, execVars, xmlVars,
                   sptVars, instVars, envVars>>

\* apply_device: lock_con.wait(...) returns, notified or timed out, with
\* lock_con acquired again.
WaitWake(p) ==
    /\ pc[p] = "waiting"
    /\ lock_con = Free
    /\ lock_con' = p
    /\ pc' = [pc EXCEPT ![p] = "scan2"]
    /\ lock_wait' = [lock_wait EXCEPT ![p] = 0]
    /\ UNCHANGED <<schedVars, rerunVars, actionVars, kitVars, devVars,
                   list_con, wait_times, p_opt, p_timeout, p_dev, p_event,
                   p_old, p_new, p_ret, held, modVars, deccVars, compVars,
                   histVars, confVars, parseVars, ohVars, jsVars, existVars,
                   concVars, execVars, xmlVars, sptVars, instVars, envVars>>

\* EnvironmentManager.release_device: "if device in manager.devices_list".
ReleaseBegin(p) ==
    /\ pc[p] = "holding"
    /\ IF held[p] \in Range(devices_list)
       THEN /\ pc' = [pc EXCEPT ![p] = "release"]
            /\ UNCHANGED held
       ELSE /\ pc' = [pc EXCEPT ![p] = "idle"]
            /\ held' = [held EXCEPT ![p] = 0]
    /\ UNCHANGED <<schedVars, rerunVars, actionVars, kitVars, devVars,
                   lock_con, list_con, wait_times, lock_wait, p_opt,
                   p_timeout, p_dev, p_event, p_old, p_new, p_ret, modVars,
                   deccVars, compVars, histVars, confVars, parseVars, ohVars,
                   jsVars, existVars, concVars, execVars, xmlVars, sptVars,
                   instVars, envVars>>

\* ManagerDevice.release_device: list_con.acquire() and the choice of the
\* event from test_device_state.
ReleaseAcquire(p) ==
    /\ pc[p] = "release"
    /\ list_con = Free
    /\ list_con' = p
    /\ p_dev' = [p_dev EXCEPT ![p] = held[p]]
    /\ p_event' = [p_event EXCEPT ![p] =
                      IF test_device_state[held[p]] = "ONLINE"
                      THEN "FREE_AVAILABLE" ELSE "FREE_UNAVAILABLE"]
    /\ p_ret' = [p_ret EXCEPT ![p] = "release"]
    /\ pc' = [pc EXCEPT ![p] = "hde_read"]
    /\ UNCHANGED <<schedVars, rerunVars, actionVars, kitVars, devVars,
                   lock_con, wait_times, lock_wait, p_opt, p_timeout, p_old,
                   p_new, held, modVars, deccVars, compVars, histVars,
                   confVars, parseVars, ohVars, jsVars, existVars, concVars,
                   execVars, xmlVars, sptVars, instVars, envVars>>

DevNext ==
    \/ \E sn \in Serials, st \in {"ONLINE", "NOT_AVAILABLE"} :
           DeviceConnected(sn, st)
    \/ \E sn \in Serials, st \in {"ONLINE", "NOT_AVAILABLE"} :
           DeviceChanged(sn, st)
    \/ \E sn \in Serials : DeviceDisconnected(sn)
    \/ \E p \in Procs : HandleRead(p)
    \/ \E p \in Procs : HandleWrite(p)
    \/ \E p \in Procs : HandleNotify(p)
    \/ \E p \in Procs : HandleRemove(p)
    \/ \E p \in Appliers, option \in DevOptions, timeout \in Timeouts :
           ApplyBegin(p, option, timeout)
    \/ \E p \in Appliers : ScanMatch(p)
    \/ \E p \in Appliers : ScanTimeout(p)
    \/ \E p \in Appliers : WaitWake(p)
    \/ \E p \in Appliers : ReleaseBegin(p)
    \/ \E p \in Appliers : ReleaseAcquire(p)

DevSpec == DevInit /\ [][DevNext]_vars

\* ------------------------------------------- discovery with a device filter
NSortSerials == 4
MaxFilterLen == 3
SortSerials == 1..NSortSerials

\* the sn lists of the user configuration: each serial named once
SortFilters ==
    {f \in UNION {[1..n -> SortSerials] : n \in 1..MaxFilterLen} :
        \A i, j \in DOMAIN f : i # j => f[i] # f[j]}

SortInit ==
    /\ SchedIdle
    /\ EnvIdle
    /\ InstIdle
    /\ SptIdle
    /\ XmlIdle
    /\ ExecIdle
    /\ ConcIdle
    /\ ExistIdle
    /\ JsIdle
    /\ OhIdle
    /\ ParseIdle
    /\ ConfIdle
    /\ HistIdle
    /\ CompIdle
    /\ DeccIdle
    /\ ModIdle
    /\ RerunIdle
    /\ MgrIdle
    /\ ActionIdle
    /\ KitIdle
    /\ devices_list = <<>>
    /\ device_allocation_state = [d \in SortSerials |-> "available"]
    /\ test_device_state = [d \in SortSerials |-> "NOT_AVAILABLE"]
    /\ task_state = [d \in SortSerials |-> TRUE]
    /\ device_sn = [d \in SortSerials |-> 0]
    /\ global_device_filter \in SortFilters

\* the listener alone: devices are discovered one after the other
SortNext ==
    \/ \E sn \in SortSerials : DeviceConnected(sn, "ONLINE")
    \/ HandleRead(Listener)
    \/ HandleWrite(Listener)
    \/ HandleRemove(Listener)

SortSpec == SortInit /\ [][SortNext]_vars

\* ------------------------------------------------------------ CppTestDriver
\* TestDescription.remove_test(expected_tests, test_run)
remove_test(expected, test_run) == expected \ test_run

\* the order in which "for test in expected_tests" visits the tests
RECURSIVE tests_in_order(_)
tests_in_order(S) ==
    IF S = {} THEN <<>>
    ELSE <<Min(S)>> \o tests_in_order(S \ {Min(S)})

\* RemoteCppTestRunner.rerun: whether the test is marked as blocked, with
\* the tests its own run reported (none when no run is made).
rerun_marks_blocked_budget_only(attempt, test_run) ==
    attempt # 0 /\ test_run = {}

rerun_marks_blocked(attempt, test_run) ==
    IF attempt # 0 THEN test_run = {} ELSE TRUE

\* case results after a run that reported test_run and the parser's
\* mark_test_as_blocked for the tests of marked
record_results(results, test_run, marked) ==
    [t \in Tests |-> results[t] + (IF t \in test_run THEN 1 ELSE 0)
                                + (IF t \in marked THEN 1 ELSE 0)]

RerunInit ==
    /\ SchedIdle
    /\ EnvIdle
    /\ InstIdle
    /\ SptIdle
    /\ XmlIdle
    /\ ExecIdle
    /\ ConcIdle
    /\ ExistIdle
    /\ JsIdle
    /\ OhIdle
    /\ ParseIdle
    /\ ConfIdle
    /\ HistIdle
    /\ CompIdle
    /\ DeccIdle
    /\ ModIdle
    /\ MgrIdle
    /\ ActionIdle
    /\ KitIdle
    /\ devices_list = <<>>
    /\ device_allocation_state = <<>>
    /\ test_device_state = <<>>
    /\ task_state = <<>>
    /\ device_sn = <<>>
    /\ global_device_filter = <<>>
    /\ expected_tests \in SUBSET Tests
    /\ rr_pc = "collect"
    /\ remaining = {}
    /\ serial_queue = <<>>
    /\ rerun_attempt = FAILED_RUN_TEST_ATTEMPTS
    /\ case_results = [t \in Tests |-> 0]
    /\ blocked = {}

\* _do_test_run: with no test collected the module is run once as it is,
\* otherwise _run_with_rerun takes over.
DoTestRun ==
    /\ rr_pc = "collect"
    /\ IF expected_tests = {}
       THEN /\ \E test_run \in SUBSET Tests :
                  case_results' = record_results(case_results, test_run, {})
            /\ rr_pc' \in {"done", "aborted"}
       ELSE /\ rr_pc' = "full"
            /\ UNCHANGED case_results
    /\ UNCHANGED <<devVars, schedVars, mgrVars, actionVars, kitVars,
                   expected_tests, remaining, serial_queue, rerun_attempt,
                   blocked, modVars, deccVars, compVars, histVars, confVars,
                   parseVars, ohVars, jsVars, existVars, concVars, execVars,
                   xmlVars, sptVars, instVars, envVars>>

\* _run_with_rerun: the full run, which reports some of the expected tests
\* or raises, and the comparison of the two counts.
RunWithRerun ==
    /\ rr_pc = "full"
    /\ \E test_run \in SUBSET expected_tests, raised \in BOOLEAN :
          /\ case_results' = record_results(case_results, test_run, {})
          /\ IF raised
             THEN /\ rr_pc' = "aborted"
                  /\ UNCHANGED remaining
             ELSE IF Cardinality(test_run) < Cardinality(expected_tests)
             THEN /\ remaining' = remove_test(expected_tests, test_run)
                  /\ rr_pc' = "rerun_all"
             ELSE /\ rr_pc' = "done"
                  /\ UNCHANGED remaining
    /\ UNCHANGED <<devVars, schedVars, mgrVars, actionVars, kitVars,
                   expected_tests, serial_queue, rerun_attempt, blocked,
                   modVars, deccVars, compVars, histVars, confVars, parseVars,
                   ohVars, jsVars, existVars, concVars, execVars, xmlVars,
                   sptVars, instVars, envVars>>

\* _rerun_all: one run filtered to the tests still expected.
RerunAll ==
    /\ rr_pc = "rerun_all"
    /\ \E test_run \in SUBSET remaining, raised \in BOOLEAN :
          /\ case_results' = record_results(case_results, test_run, {})
          /\ IF raised
             THEN /\ rr_pc' = "aborted"
                  /\ UNCHANGED <<remaining, serial_queue>>
             ELSE IF Cardinality(test_run) < Cardinality(remaining)
             THEN /\ remaining' = remove_test(remaining, test_run)
                  /\ serial_queue' = tests_in_order(remaining')
                  /\ rr_pc' = "serial"
             ELSE /\ rr_pc' = "done"
                  /\ UNCHANGED <<remaining, serial_queue>>
    /\ UNCHANGED <<devVars, schedVars, mgrVars, actionVars, kitVars,
                   expected_tests, rerun_attempt, blocked, modVars, deccVars,
                   compVars, histVars, confVars, parseVars, ohVars, jsVars,
                   existVars, concVars, execVars, xmlVars, sptVars, instVars,
                   envVars>>

\* _rerun_serially: runner.rerun(listener, test) for the next test. The
\* run is filtered to that test; ShellCommandUnresponsiveException is
\* caught, any other exception leaves after the finally clause.
RerunSerially ==
    /\ rr_pc = "serial"
    /\ serial_queue # <<>>
    /\ LET test == Head(serial_queue)
       IN  \E test_run \in SUBSET {test}, raised \in BOOLEAN :
              /\ rerun_attempt = 0 => (test_run = {} /\ ~raised)
              /\ LET marked == IF rerun_marks_blocked(rerun_attempt, test_run)
                               THEN {test} ELSE {}
                 IN  /\ case_results' =
                            record_results(case_results, test_run, marked)
                     /\ blocked' = blocked \cup marked
              /\ rerun_attempt' = IF rerun_attempt # 0 /\ test_run = {}
                                  THEN rerun_attempt - 1 ELSE rerun_attempt
              /\ IF raised
                 THEN /\ rr_pc' = "aborted"
                      /\ UNCHANGED serial_queue
                 ELSE /\ serial_queue' = Tail(serial_queue)
                      /\ UNCHANGED rr_pc
    /\ UNCHANGED <<devVars, schedVars, mgrVars, actionVars, kitVars,
                   expected_tests, remaining, modVars, deccVars, compVars,
                   histVars, confVars, parseVars, ohVars, jsVars, existVars,
                   concVars, execVars, xmlVars, sptVars, instVars, envVars>>

\* _rerun_serially: the loop is over.
RerunEnd ==
    /\ rr_pc = "serial"
    /\ serial_queue = <<>>
    /\ rr_pc' = "done"
    /\ UNCHANGED <<devVars, schedVars, mgrVars, actionVars, kitVars,
                   expected_tests, remaining, serial_queue, rerun_attempt,
                   case_results, blocked, modVars, deccVars, compVars,
                   histVars, confVars, parseVars, ohVars, jsVars, existVars,
                   concVars, execVars, xmlVars, sptVars, instVars, envVars>>

RerunNext ==
    \/ DoTestRun \/ RunWithRerun \/ RerunAll \/ RerunSerially \/ RerunEnd

RerunSpec == RerunInit /\ [][RerunNext]_vars

\* ---------------------------------------------------- perform_device_action
\* device.py: RETRY_ATTEMPTS
RETRY_ATTEMPTS == 2
MaxRetry == 2

\* what one call of the decorated function does: it returns, or raises an
\* exception of one of the classes device_action tells apart
FuncOutcomes == {"ok", "ReportException", "ConnectionResetError",
                 "ConnectionRefusedError", "HdcError", "Exception"}
RecoveryErrors == {"ConnectionResetError", "ConnectionRefusedError",
                   "HdcError"}

\* the kwargs of a call: retry (absent or an integer), abort_on_exception
KwargsSet ==
    {[retry_given |-> g, retry |-> r, abort_on_exception |-> a] :
        g \in BOOLEAN, r \in -1..MaxRetry, a \in BOOLEAN}
    \ {k \in [retry_given : {FALSE}, retry : -1..MaxRetry,
               abort_on_exception : BOOLEAN] : k.retry # 0}

\* device_action: tmp = int(kwargs.get("retry", RETRY_ATTEMPTS))
requested_retry(kwargs) ==
    IF kwargs.retry_given THEN kwargs.retry ELSE RETRY_ATTEMPTS

\* device_action: retry = tmp + 1 if tmp > 0 else 1
range_retry_plain(tmp) == tmp

range_retry(tmp) == IF tmp > 0 THEN tmp + 1 ELSE 1

\* Device.recover_device: None when recover_state is false, otherwise the
\* outcome of device_state_monitor.wait_for_device_available()
recover_device(d, available) == recover_state[d] /\ available

\* device_action: one iteration of "for _ in range(retry)" whose call of
\* func ended with outcome; recovered is the value of recover_device()
\* when the except clause calls it. The result is where device_action goes
\* next, the iterations left, and whether set_recover_state(False) ran.
attempt_result_keep_trying(outcome, recovered, left) ==
    IF outcome = "ok"
    THEN [pc |-> "returned", left |-> left, mark |-> FALSE]
    ELSE [pc |-> IF left = 1 THEN "raised" ELSE "loop", left |-> left - 1,
          mark |-> outcome \in RecoveryErrors /\ ~recovered]

attempt_result(outcome, recovered, left) ==
    IF outcome = "ok"
    THEN [pc |-> "returned", left |-> left, mark |-> FALSE]
    ELSE IF outcome \in RecoveryErrors /\ ~recovered
    THEN [pc |-> "raised", left |-> left, mark |-> TRUE]
    ELSE [pc |-> IF left = 1 THEN "raised" ELSE "loop", left |-> left - 1,
          mark |-> FALSE]

ActionInit ==
    /\ SchedIdle
    /\ EnvIdle
    /\ InstIdle
    /\ SptIdle
    /\ XmlIdle
    /\ ExecIdle
    /\ ConcIdle
    /\ ExistIdle
    /\ JsIdle
    /\ OhIdle
    /\ ParseIdle
    /\ ConfIdle
    /\ HistIdle
    /\ CompIdle
    /\ DeccIdle
    /\ ModIdle
    /\ MgrIdle
    /\ RerunIdle
    /\ KitIdle
    /\ devices_list = [i \in 1..NDevices |-> i]
    /\ device_allocation_state = [d \in Devices |-> "available"]
    /\ test_device_state = [d \in Devices |-> "ONLINE"]
    /\ task_state = [d \in Devices |-> TRUE]
    /\ device_sn = [d \in Devices |-> d]
    /\ global_device_filter = <<>>
    /\ recover_state = [d \in Devices |-> TRUE]
    /\ act_dev = 0
    /\ da_pc = "idle"
    /\ da_kwargs = NoKwargs
    /\ da_left = 0
    /\ invocations = 0
    /\ da_exception = ""
    /\ da_recover = "none"

daLocals == <<da_kwargs, da_left, invocations, da_exception, da_recover>>

\* a job gets a device: ManagerDevice.apply_device with a phone option
ActionApply ==
    /\ da_pc = "idle"
    /\ act_dev = 0
    /\ LET device == allocate_device_option(Option("phone"),
                                            device_allocation_state)
       IN  /\ device # 0
           /\ device_allocation_state' =
                  [device_allocation_state EXCEPT ![device] =
                      new_allocation_state(device_sn[device], @,
                                           "ALLOCATE_REQUEST")]
           /\ act_dev' = device
    /\ UNCHANGED <<schedVars, mgrVars, rerunVars, kitVars, devices_list,
                   test_device_state, task_state, device_sn,
                   global_device_filter, recover_state, da_pc, daLocals,
                   modVars, deccVars, compVars, histVars, confVars, parseVars,
                   ohVars, jsVars, existVars, concVars, execVars, xmlVars,
                   sptVars, instVars, envVars>>

\* the job gives the device back: EnvironmentManager.release_device
ActionRelease ==
    /\ da_pc = "idle"
    /\ act_dev # 0
    /\ LET released == release_environment(device_allocation_state,
                                           <<act_dev>>)
       IN  /\ device_allocation_state' = released
           /\ devices_list' = remove_unknown(devices_list, released)
    /\ act_dev' = 0
    /\ UNCHANGED <<schedVars, mgrVars, rerunVars, kitVars, test_device_state,
                   task_state, device_sn, global_device_filter, recover_state,
                   da_pc, daLocals, modVars, deccVars, compVars, histVars,
                   confVars, parseVars, ohVars, jsVars, existVars, concVars,
                   execVars, xmlVars, sptVars, instVars, envVars>>

\* device_action without its first statement, the recover_state guard
DeviceActionBeginUnguarded(kwargs) ==
    /\ da_pc = "idle"
    /\ act_dev # 0
    /\ da_kwargs' = kwargs
    /\ IF kwargs.abort_on_exception
       THEN /\ da_pc' = "once"
            /\ da_left' = 0
       ELSE /\ da_pc' = "loop"
            /\ da_left' = range_retry(requested_retry(kwargs))
    /\ UNCHANGED <<devVars, schedVars, mgrVars, rerunVars, kitVars,
                   recover_state, act_dev, invocations, da_exception,
                   da_recover, modVars, deccVars, compVars, histVars,
                   confVars, parseVars, ohVars, jsVars, existVars, concVars,
                   execVars, xmlVars, sptVars, instVars, envVars>>

\* device_action is called on the job's device: the recover_state guard,
\* the abort_on_exception branch, the attempt budget.
DeviceActionBegin(kwargs) ==
    /\ da_pc = "idle"
    /\ act_dev # 0
    /\ da_kwargs' = kwargs
    /\ IF ~recover_state[act_dev]
       THEN /\ da_pc' = "returned"
            /\ da_left' = 0
       ELSE IF kwargs.abort_on_exception
       THEN /\ da_pc' = "once"
            /\ da_left' = 0
       ELSE /\ da_pc' = "loop"
            /\ da_left' = range_retry(requested_retry(kwargs))
    /\ UNCHANGED <<devVars, schedVars, mgrVars, rerunVars, kitVars,
                   recover_state, act_dev, invocations, da_exception,
                   da_recover, modVars, deccVars, compVars, histVars,
                   confVars, parseVars, ohVars, jsVars, existVars, concVars,
                   execVars, xmlVars, sptVars, instVars, envVars>>

\* device_action with abort_on_exception: "result = func(...)" once, its
\* exception goes to the caller as it is.
DeviceActionOnce(outcome) ==
    /\ da_pc = "once"
    /\ invocations' = invocations + 1
    /\ da_exception' = IF outcome = "ok" THEN "" ELSE outcome
    /\ da_pc' = IF outcome = "ok" THEN "returned" ELSE "raised"
    /\ UNCHANGED <<devVars, schedVars, mgrVars, rerunVars, kitVars,
                   recover_state, act_dev, da_kwargs, da_left, da_recover,
                   modVars, deccVars, compVars, histVars, confVars, parseVars,
                   ohVars, jsVars, existVars, concVars, execVars, xmlVars,
                   sptVars, instVars, envVars>>

\* device_action: one iteration of the for loop, with its except clauses
\* and, after the last iteration, "raise exception".
DeviceActionAttempt(outcome, available) ==
    /\ da_pc = "loop"
    /\ da_left > 0
    /\ LET recovered == recover_device(act_dev, available)
           next == attempt_result(outcome, recovered, da_left)
       IN  /\ invocations' = invocations + 1
           /\ da_exception' = IF outcome = "ok" THEN da_exception
                              ELSE outcome
           /\ da_recover' = IF outcome \notin RecoveryErrors THEN da_recover
                            ELSE IF recovered THEN "success" ELSE "failed"
           /\ recover_state' = IF next.mark
                               THEN [recover_state EXCEPT ![act_dev] = FALSE]
                               ELSE recover_state
           /\ da_pc' = next.pc
           /\ da_left' = next.left
    /\ UNCHANGED <<devVars, schedVars, mgrVars, rerunVars, kitVars, act_dev,
                   da_kwargs, modVars, deccVars, compVars, histVars, confVars,
                   parseVars, ohVars, jsVars, existVars, concVars, execVars,
                   xmlVars, sptVars, instVars, envVars>>

\* device_action is over: the caller has the result or the exception.
DeviceActionEnd ==
    /\ da_pc \in {"returned", "raised"}
    /\ da_pc' = "idle"
    /\ da_kwargs' = NoKwargs
    /\ da_left' = 0
    /\ invocations' = 0
    /\ da_exception' = ""
    /\ da_recover' = "none"
    /\ UNCHANGED <<devVars, schedVars, mgrVars, rerunVars, kitVars,
                   recover_state, act_dev, modVars, deccVars, compVars,
                   histVars, confVars, parseVars, ohVars, jsVars, existVars,
                   concVars, execVars, xmlVars, sptVars, instVars, envVars>>

\* ManagedDeviceListener.device_changed for a device of the list
ActionDeviceChanged(d, st) ==
    /\ d \in Range(devices_list)
    /\ test_device_state' = [test_device_state EXCEPT ![d] = st]
    /\ LET changed ==
               [device_allocation_state EXCEPT ![d] =
                   new_allocation_state(
                       device_sn[d], @,
                       IF st = "ONLINE" THEN "STATE_CHANGE_ONLINE"
                       ELSE "STATE_CHANGE_OFFLINE")]
       IN  /\ device_allocation_state' = changed
           /\ devices_list' = remove_unknown(devices_list, changed)
    /\ UNCHANGED <<schedVars, mgrVars, rerunVars, kitVars, task_state,
                   device_sn, global_device_filter, actionVars, modVars,
                   deccVars, compVars, histVars, confVars, parseVars, ohVars,
                   jsVars, existVars, concVars, execVars, xmlVars, sptVars,
                   instVars, envVars>>

\* ManagedDeviceListener.device_connected for a device of the list, which
\* ends with set_recover_state(True)
ActionDeviceConnected(d, st) ==
    /\ d \in Range(devices_list)
    /\ test_device_state' = [test_device_state EXCEPT ![d] = st]
    /\ LET changed ==
               [device_allocation_state EXCEPT ![d] =
                   new_allocation_state(
                       device_sn[d], @,
                       IF st = "ONLINE" THEN "CONNECTED_ONLINE"
                       ELSE "CONNECTED_OFFLINE")]
       IN  /\ device_allocation_state' = changed
           /\ devices_list' = remove_unknown(devices_list, changed)
    /\ recover_state' = [recover_state EXCEPT ![d] = TRUE]
    /\ UNCHANGED <<schedVars, mgrVars, rerunVars, kitVars, task_state,
                   device_sn, global_device_filter, act_dev, da_pc, daLocals,
                   modVars, deccVars, compVars, histVars, confVars, parseVars,
                   ohVars, jsVars, existVars, concVars, execVars, xmlVars,
                   sptVars, instVars, envVars>>

ActionNext ==
    \/ ActionApply
    \/ ActionRelease
    \/ \E kwargs \in KwargsSet : DeviceActionBegin(kwargs)
    \/ \E outcome \in FuncOutcomes : DeviceActionOnce(outcome)
    \/ \E outcome \in FuncOutcomes, available \in BOOLEAN :
           DeviceActionAttempt(outcome, available)
    \/ DeviceActionEnd
    \/ \E d \in Devices, st \in {"ONLINE", "NOT_AVAILABLE"} :
           ActionDeviceChanged(d, st)
    \/ \E d \in Devices, st \in {"ONLINE", "NOT_AVAILABLE"} :
           ActionDeviceConnected(d, st)

ActionSpec == ActionInit /\ [][ActionNext]_vars

\* ------------------------------------------------------- task-level kits
\* A device task whose config names task kits: the dispatch loop hands a
\* free device to the job at the head of the list, the job's thread runs
\* _do_task_setup on it, and _do_taskkit_teardown ends the task.
NKitJobs == 3
NKitDevices == 2
NKits == 2
KitJobs == 1..NKitJobs
KitDevices == 1..NKitDevices
Kits == 1..NKits

\* kit.__setup__(device, request=driver_request): it returns, raises one of
\* the exceptions _do_task_setup catches and logs, or raises another one
\* (PropertyCheckKit with throw-error: "raise Exception(msg)").
KitOutcomes == {"ok", "caught", "raised"}

KitInit ==
    /\ MgrIdle
    /\ EnvIdle
    /\ InstIdle
    /\ SptIdle
    /\ XmlIdle
    /\ ExecIdle
    /\ ConcIdle
    /\ ExistIdle
    /\ JsIdle
    /\ OhIdle
    /\ ParseIdle
    /\ ConfIdle
    /\ HistIdle
    /\ CompIdle
    /\ DeccIdle
    /\ ModIdle
    /\ RerunIdle
    /\ ActionIdle
    /\ devices_list = [i \in 1..NKitDevices |-> i]
    /\ device_allocation_state = [d \in KitDevices |-> "available"]
    /\ test_device_state = [d \in KitDevices |-> "ONLINE"]
    /\ task_state = [d \in KitDevices |-> TRUE]
    /\ device_sn = [d \in KitDevices |-> d]
    /\ global_device_filter = <<>>
    /\ is_execute = TRUE
    /\ mode = "factory"
    /\ job_options = [j \in KitJobs |-> <<Option("phone")>>]
    /\ test_drivers = [i \in 1..NKitJobs |-> i]
    /\ sched_pc = "loop"
    /\ environment = NoEnvironment
    /\ opt_idx = 1
    /\ th_pc = [j \in KitJobs |-> "none"]
    /\ th_env = [j \in KitJobs |-> <<>>]
    /\ th_driver = [j \in KitJobs |-> FALSE]
    /\ th_error = [j \in KitJobs |-> FALSE]
    /\ current_driver_threads = {}
    /\ message_queue = <<>>
    /\ mon_pc = "loop"
    /\ terminate_result = 0
    /\ term_pc = "idle"
    /\ report = [j \in KitJobs |-> ""]
    /\ need_kit_setup = [d \in KitDevices |-> TRUE]
    /\ kit_setups = [d \in KitDevices |-> [k \in Kits |-> 0]]
    /\ used_devices = {}
    /\ kit_idx = [j \in KitJobs |-> 0]

\* _append_used_devices: the devices of the environment are added under
\* their serial.
append_used_devices(used, devs) == used \cup Range(devs)

\* _do_taskkit_teardown: need_kit_setup of every used device that was set
\* up is true again.
do_taskkit_teardown(need, used) ==
    [d \in DOMAIN need |-> IF d \in used /\ ~need[d] THEN TRUE ELSE need[d]]

\* _dynamic_concurrent_execute, one pass of the loop that starts a thread:
\* apply_environment allocates the first listed device that matches,
\* _append_used_devices, _start_driver_thread and test_drivers.pop(0).
KitDispatch(d) ==
    /\ sched_pc = "loop"
    /\ test_drivers # <<>>
    /\ is_execute
    /\ d = allocate_device_option(Option("phone"), device_allocation_state)
    /\ d # 0
    /\ LET j == next_test_driver(test_drivers)
       IN  /\ device_allocation_state' =
                  [device_allocation_state EXCEPT ![d] = "allocated"]
           /\ used_devices' = append_used_devices(used_devices, <<d>>)
           /\ th_pc' = [th_pc EXCEPT ![j] = "gate"]
           /\ th_env' = [th_env EXCEPT ![j] = <<d>>]
           /\ current_driver_threads' = current_driver_threads \cup {j}
    /\ test_drivers' = Tail(test_drivers)
    /\ UNCHANGED <<mgrVars, rerunVars, actionVars, devices_list,
                   test_device_state, task_state, device_sn,
                   global_device_filter, is_execute, mode, job_options,
                   sched_pc, environment, opt_idx, th_driver, th_error,
                   message_queue, mon_pc, terminate_result, term_pc, report,
                   need_kit_setup, kit_setups, kit_idx, modVars, deccVars,
                   compVars, histVars, confVars, parseVars, ohVars, jsVars,
                   existVars, concVars, execVars, xmlVars, sptVars, instVars,
                   envVars>>

\* _dynamic_concurrent_execute: the loop is left, because the list is
\* empty or because the scheduler was terminated (_clear_not_executed).
KitDispatchEnd ==
    /\ sched_pc = "loop"
    /\ test_drivers = <<>> \/ ~is_execute
    /\ report' = clear_not_executed_report(report, test_drivers)
    /\ test_drivers' = <<>>
    /\ sched_pc' = "wait"
    /\ UNCHANGED <<mgrVars, rerunVars, actionVars, kitVars, devVars,
                   is_execute, mode, job_options, environment, opt_idx,
                   threadVars, monVars, term_pc, modVars, deccVars, compVars,
                   histVars, confVars, parseVars, ohVars, jsVars, existVars,
                   concVars, execVars, xmlVars, sptVars, instVars, envVars>>

\* DriversThread.run: "if self.test_driver and Scheduler.is_execute", then
\* _do_task_setup up to the test of need_kit_setup on the device.
KitThreadGate(j) ==
    /\ th_pc[j] = "gate"
    /\ IF ~is_execute
       THEN /\ th_pc' = [th_pc EXCEPT ![j] = "finally"]
            /\ UNCHANGED <<th_driver, kit_idx>>
       ELSE /\ th_driver' = [th_driver EXCEPT ![j] = TRUE]
            /\ IF need_kit_setup[th_env[j][1]]
               THEN /\ th_pc' = [th_pc EXCEPT ![j] = "kits"]
                    /\ kit_idx' = [kit_idx EXCEPT ![j] = 1]
               ELSE /\ th_pc' = [th_pc EXCEPT ![j] = "execute"]
                    /\ UNCHANGED kit_idx
    /\ UNCHANGED <<mgrVars, rerunVars, actionVars, devVars, is_execute, mode,
                   job_options, test_drivers, sched_pc, environment, opt_idx,
                   th_env, th_error, monVars, term_pc, report, need_kit_setup,
                   kit_setups, used_devices, modVars, deccVars, compVars,
                   histVars, confVars, parseVars, ohVars, jsVars, existVars,
                   concVars, execVars, xmlVars, sptVars, instVars, envVars>>

\* _do_task_setup: one pass of "for kit in task_kits", and after the last
\* kit or after "break" the assignment need_kit_setup = False. An exception
\* outside the except clause leaves _do_task_setup and is caught by run().
KitSetup(j, outcome) ==
    /\ th_pc[j] = "kits"
    /\ LET d == th_env[j][1]
           k == kit_idx[j]
       IN  IF k > NKits \/ ~is_execute
           THEN /\ outcome = "ok"
                /\ need_kit_setup' = [need_kit_setup EXCEPT ![d] = FALSE]
                /\ th_pc' = [th_pc EXCEPT ![j] = "execute"]
                /\ UNCHANGED <<kit_setups, kit_idx, th_error>>
           ELSE /\ kit_setups' = [kit_setups EXCEPT ![d][k] = @ + 1]
                /\ IF outcome = "raised"
                   THEN /\ th_error' = [th_error EXCEPT ![j] = TRUE]
                        /\ th_pc' = [th_pc EXCEPT ![j] = "finally"]
                        /\ UNCHANGED kit_idx
                   ELSE /\ kit_idx' = [kit_idx EXCEPT ![j] = k + 1]
                        /\ UNCHANGED <<th_pc, th_error>>
                /\ UNCHANGED need_kit_setup
    /\ UNCHANGED <<mgrVars, rerunVars, actionVars, devVars, is_execute, mode,
                   job_options, test_drivers, sched_pc, environment, opt_idx,
                   th_env, th_driver, monVars, term_pc, report, used_devices,
                   modVars, deccVars, compVars, histVars, confVars, parseVars,
                   ohVars, jsVars, existVars, concVars, execVars, xmlVars,
                   sptVars, instVars, envVars>>

\* DriversThread.run: driver.__execute__ returns or raises.
KitExecute(j) ==
    /\ th_pc[j] = "execute"
    /\ \E raised \in BOOLEAN :
          th_error' = [th_error EXCEPT ![j] = raised]
    /\ th_pc' = [th_pc EXCEPT ![j] = "finally"]
    /\ report' = check_result_report(report, j, "result")
    /\ UNCHANGED <<mgrVars, rerunVars, actionVars, kitVars, devVars,
                   is_execute, mode, job_options, test_drivers, sched_pc,
                   environment, opt_idx, th_env, th_driver, monVars, term_pc,
                   modVars, deccVars, compVars, histVars, confVars, parseVars,
                   ohVars, jsVars, existVars, concVars, execVars, xmlVars,
                   sptVars, instVars, envVars>>

\* _handle_finally: the environment is freed and the message is put; the
\* monitor thread takes the thread off current_driver_threads.
KitFinally(j) ==
    /\ th_pc[j] = "finally"
    /\ th_pc' = [th_pc EXCEPT ![j] = "ended"]
    /\ device_allocation_state' =
           release_environment(device_allocation_state, th_env[j])
    /\ current_driver_threads' = current_driver_threads \ {j}
    /\ UNCHANGED <<mgrVars, rerunVars, actionVars, kitVars, devices_list,
                   test_device_state, task_state, device_sn,
                   global_device_filter, is_execute, mode, job_options,
                   test_drivers, sched_pc, environment, opt_idx, th_env,
                   th_driver, th_error, message_queue, mon_pc,
                   terminate_result, term_pc, report, modVars, deccVars,
                   compVars, histVars, confVars, parseVars, ohVars, jsVars,
                   existVars, concVars, execVars, xmlVars, sptVars, instVars,
                   envVars>>

\* _dynamic_concurrent_execute: the monitor thread is over, then
\* _do_taskkit_teardown(used_devices, task_unused_env).
KitTeardown ==
    /\ sched_pc = "wait"
    /\ current_driver_threads = {}
    /\ need_kit_setup' = do_taskkit_teardown(need_kit_setup, used_devices)
    /\ sched_pc' = "done"
    /\ mon_pc' = "ended"
    /\ UNCHANGED <<mgrVars, rerunVars, actionVars, devVars, is_execute, mode,
                   job_options, test_drivers, environment, opt_idx,
                   threadVars, current_driver_threads, message_queue,
                   terminate_result, term_pc, report, kit_setups,
                   used_devices, kit_idx, modVars, deccVars, compVars,
                   histVars, confVars, parseVars, ohVars, jsVars, existVars,
                   concVars, execVars, xmlVars, sptVars, instVars, envVars>>

\* terminate_cmd_exec: Scheduler.is_execute = False.
KitTerminate ==
    /\ is_execute
    /\ sched_pc # "done"
    /\ is_execute' = FALSE
    /\ UNCHANGED <<mgrVars, rerunVars, actionVars, kitVars, devVars, mode,
                   job_options, test_drivers, sched_pc, environment, opt_idx,
                   threadVars, monVars, term_pc, report, modVars, deccVars,
                   compVars, histVars, confVars, parseVars, ohVars, jsVars,
                   existVars, concVars, execVars, xmlVars, sptVars, instVars,
                   envVars>>

KitNext ==
    \/ \E d \in KitDevices : KitDispatch(d)
    \/ KitDispatchEnd
    \/ \E j \in KitJobs : KitThreadGate(j)
    \/ \E j \in KitJobs : \E outcome \in KitOutcomes : KitSetup(j, outcome)
    \/ \E j \in KitJobs : KitExecute(j)
    \/ \E j \in KitJobs : KitFinally(j)
    \/ KitTeardown
    \/ KitTerminate

KitSpec == KitInit /\ [][KitNext]_vars

\* ------------------------------------------------ module kits of one driver
\* CppTestDriver._run_cpp_test: do_module_kit_setup, the test run, and
\* do_module_kit_teardown in the finally clause.
NModKits == 2
NModDevices == 2
ModKits == 1..NModKits
ModDevices == 1..NModDevices

\* how a call of kit code or of the test run ends
CallOutcomes == {"ok", "raised"}

\* check_device_name(device, kit, step): false only when the kit names a
\* device and the device has another name. Device d is named d.
check_device_name(names, d, kit) == ~(names[kit] # 0 /\ names[kit] # d)

ModInit ==
    /\ MgrIdle
    /\ EnvIdle
    /\ InstIdle
    /\ SptIdle
    /\ XmlIdle
    /\ ExecIdle
    /\ ConcIdle
    /\ ExistIdle
    /\ JsIdle
    /\ OhIdle
    /\ ParseIdle
    /\ ConfIdle
    /\ HistIdle
    /\ CompIdle
    /\ DeccIdle
    /\ RerunIdle
    /\ ActionIdle
    /\ KitIdle
    /\ SchedIdle
    /\ devices_list = <<>>
    /\ device_allocation_state = <<>>
    /\ test_device_state = <<>>
    /\ task_state = <<>>
    /\ device_sn = <<>>
    /\ global_device_filter = <<>>
    /\ kit_device_name \in [ModKits -> 0..NModDevices]
    /\ module_kits = [d \in ModDevices |-> <<>>]
    /\ run_flag = FALSE
    /\ mk_pc = "start"
    /\ mk_kit = 0
    /\ mk_dev = 0
    /\ mk_error = ""
    /\ setup_invoked = {}
    /\ teardown_invoked = {}

\* _run_cpp_test up to the first pass of do_module_kit_setup: the config
\* file is missing (ParamError), or the module_kits of every device are
\* emptied and the kit loop starts.
ModSetupBegin ==
    /\ mk_pc = "start"
    /\ \/ /\ mk_pc' = "teardown"
          /\ mk_error' = "ParamError"
          /\ mk_dev' = 1
          /\ mk_kit' = 1
          /\ UNCHANGED module_kits
       \/ /\ module_kits' = [d \in ModDevices |-> <<>>]
          /\ mk_pc' = "setup"
          /\ mk_kit' = 1
          /\ mk_dev' = 1
          /\ UNCHANGED mk_error
    /\ UNCHANGED <<devVars, schedVars, mgrVars, rerunVars, actionVars,
                   kitVars, deccVars, kit_device_name, run_flag,
                   setup_invoked, teardown_invoked, compVars, histVars,
                   confVars, parseVars, ohVars, jsVars, existVars, concVars,
                   execVars, xmlVars, sptVars, instVars, envVars>>

\* the position after device mk_dev of kit mk_kit in do_module_kit_setup:
\* the next device, or the "if not run_flag" test and the next kit
setup_advance(flag) ==
    IF mk_dev < NModDevices
    THEN [pc |-> "setup", kit |-> mk_kit, dev |-> mk_dev + 1, flag |-> flag,
          error |-> ""]
    ELSE IF ~flag
    THEN [pc |-> "teardown", kit |-> 1, dev |-> 1, flag |-> flag,
          error |-> "ParamError"]
    ELSE IF mk_kit < NModKits
    THEN [pc |-> "setup", kit |-> mk_kit + 1, dev |-> 1, flag |-> FALSE,
          error |-> ""]
    ELSE [pc |-> "run", kit |-> 0, dev |-> 0, flag |-> FALSE, error |-> ""]

\* do_module_kit_setup: one pass of "for device in request.get_devices()"
\* for the kit at hand.
ModSetupStep(outcome) ==
    /\ mk_pc = "setup"
    /\ IF ~is_execute
       THEN /\ outcome = "ok"
            /\ mk_pc' = "teardown"
            /\ mk_error' = "ExecuteTerminate"
            /\ mk_kit' = 1
            /\ mk_dev' = 1
            /\ UNCHANGED <<module_kits, run_flag, setup_invoked>>
       ELSE IF ~check_device_name(kit_device_name, mk_dev, mk_kit)
       THEN /\ outcome = "ok"
            /\ LET nxt == setup_advance(run_flag)
               IN  /\ mk_pc' = nxt.pc
                   /\ mk_kit' = nxt.kit
                   /\ mk_dev' = nxt.dev
                   /\ run_flag' = nxt.flag
                   /\ mk_error' = nxt.error
            /\ UNCHANGED <<module_kits, setup_invoked>>
       ELSE /\ module_kits' = [module_kits EXCEPT
                                  ![mk_dev] = Append(@, mk_kit)]
            /\ setup_invoked' = setup_invoked \cup {<<mk_kit, mk_dev>>}
            /\ IF outcome = "raised"
               THEN /\ mk_pc' = "teardown"
                    /\ mk_error' = "setup"
                    /\ mk_kit' = 1
                    /\ mk_dev' = 1
                    /\ run_flag' = TRUE
               ELSE LET nxt == setup_advance(TRUE)
                    IN  /\ mk_pc' = nxt.pc
                        /\ mk_kit' = nxt.kit
                        /\ mk_dev' = nxt.dev
                        /\ run_flag' = nxt.flag
                        /\ mk_error' = nxt.error
    /\ UNCHANGED <<devVars, schedVars, mgrVars, rerunVars, actionVars,
                   kitVars, deccVars, kit_device_name, teardown_invoked,
                   compVars, histVars, confVars, parseVars, ohVars, jsVars,
                   existVars, concVars, execVars, xmlVars, sptVars, instVars,
                   envVars>>

\* _run_cpp_test: _do_test_run or _do_test_retry returns (tests passed or
\* failed) or raises.
ModRun(outcome) ==
    /\ mk_pc = "run"
    /\ mk_pc' = "teardown"
    /\ mk_error' = IF outcome = "raised" THEN "run" ELSE ""
    /\ mk_kit' = 1
    /\ mk_dev' = 1
    /\ UNCHANGED <<devVars, schedVars, mgrVars, rerunVars, actionVars,
                   kitVars, deccVars, kit_device_name, module_kits, run_flag,
                   setup_invoked, teardown_invoked, compVars, histVars,
                   confVars, parseVars, ohVars, jsVars, existVars, concVars,
                   execVars, xmlVars, sptVars, instVars, envVars>>

\* do_module_kit_teardown: one pass of "for kit in module_kits" of the
\* device at hand; after its last kit the list of the device is emptied.
\* An exception of kit.__teardown__ leaves the function.
ModTeardownStep(outcome) ==
    /\ mk_pc = "teardown"
    /\ IF mk_kit > Len(module_kits[mk_dev])
       THEN /\ outcome = "ok"
            /\ module_kits' = [module_kits EXCEPT ![mk_dev] = <<>>]
            /\ mk_kit' = 1
            /\ IF mk_dev < NModDevices
               THEN /\ mk_dev' = mk_dev + 1
                    /\ UNCHANGED mk_pc
               ELSE /\ mk_dev' = 0
                    /\ mk_pc' = "done"
            /\ UNCHANGED <<teardown_invoked, mk_error>>
       ELSE LET kit == module_kits[mk_dev][mk_kit]
            IN  IF ~check_device_name(kit_device_name, mk_dev, kit)
                THEN /\ outcome = "ok"
                     /\ mk_kit' = mk_kit + 1
                     /\ UNCHANGED <<module_kits, mk_dev, mk_pc,
                                    teardown_invoked, mk_error>>
                ELSE /\ teardown_invoked' =
                            teardown_invoked \cup {<<kit, mk_dev>>}
                     /\ IF outcome = "raised"
                        THEN /\ mk_pc' = "done"
                             /\ mk_error' = "teardown"
                             /\ UNCHANGED <<mk_kit, mk_dev>>
                        ELSE /\ mk_kit' = mk_kit + 1
                             /\ UNCHANGED <<mk_dev, mk_pc, mk_error>>
                     /\ UNCHANGED module_kits
    /\ UNCHANGED <<devVars, schedVars, mgrVars, rerunVars, actionVars,
                   kitVars, deccVars, kit_device_name, run_flag,
                   setup_invoked, compVars, histVars, confVars, parseVars,
                   ohVars, jsVars, existVars, concVars, execVars, xmlVars,
                   sptVars, instVars, envVars>>

\* terminate_cmd_exec: Scheduler.is_execute = False.
ModTerminate ==
    /\ is_execute
    /\ mk_pc # "done"
    /\ is_execute' = FALSE
    /\ UNCHANGED <<devVars, mgrVars, rerunVars, actionVars, kitVars, modVars,
                   mode, job_options, test_drivers, sched_pc, environment,
                   opt_idx, threadVars, monVars, term_pc, report, deccVars,
                   compVars, histVars, confVars, parseVars, ohVars, jsVars,
                   existVars, concVars, execVars, xmlVars, sptVars, instVars,
                   envVars>>

ModNext ==
    \/ ModSetupBegin
    \/ \E outcome \in CallOutcomes : ModSetupStep(outcome)
    \/ \E outcome \in CallOutcomes : ModRun(outcome)
    \/ \E outcome \in CallOutcomes : ModTeardownStep(outcome)
    \/ ModTerminate

ModSpec == ModInit /\ [][ModNext]_vars

\* ------------------------------------------------ the pre-flight device check
\* A decc task (or one with check_device): _decc_task_setup runs in the
\* dispatch loop, before the driver thread of the job is started.
NDeccJobs == 3
NDeccDevices == 2
DeccJobs == 1..NDeccJobs
DeccDevices == 1..NDeccDevices
DeccOptionProfiles == {<<Option("")>>, <<Option(""), Option("")>>}
LoadErrorMessage == "Load Error[00116]"

\* EnvironmentManager.apply_environment: apply_device for every option in
\* turn; an option that finds no device adds none.
RECURSIVE apply_environment(_, _, _)
apply_environment(options, das, devs) ==
    IF options = <<>> THEN [das |-> das, devices |-> devs]
    ELSE LET d == allocate_device_option(Head(options), das)
         IN  IF d = 0
             THEN apply_environment(Tail(options), das, devs)
             ELSE apply_environment(Tail(options),
                                    [das EXCEPT ![d] = "allocated"],
                                    Append(devs, d))

\* _decc_task_setup for the devices of an environment: a device that needs
\* kit setup gets the task kits; _check_device_spt clears task_state of an
\* ipcamera whose security patch level does not meet the test's (the
\* devices in spt_low); need_kit_setup is cleared.
decc_task_setup_state(devs, state, spt_low) ==
    [d \in DOMAIN state |->
        IF d \in Range(devs) /\ need_kit_setup[d] /\ label(d) = "ipcamera"
           /\ d \in spt_low
        THEN FALSE ELSE state[d]]

decc_task_setup_need(devs, need) ==
    [d \in DOMAIN need |-> IF d \in Range(devs) THEN FALSE ELSE need[d]]

\* _do_taskkit_teardown, second loop: the devices of task_unused_env get
\* task_state and need_kit_setup back.
unused_devices(unused) == UNION {Range(env) : env \in unused}

DeccInit ==
    /\ MgrIdle
    /\ EnvIdle
    /\ InstIdle
    /\ SptIdle
    /\ XmlIdle
    /\ ExecIdle
    /\ ConcIdle
    /\ ExistIdle
    /\ JsIdle
    /\ OhIdle
    /\ ParseIdle
    /\ ConfIdle
    /\ HistIdle
    /\ CompIdle
    /\ ModIdle
    /\ RerunIdle
    /\ ActionIdle
    /\ devices_list = [i \in 1..NDeccDevices |-> i]
    /\ device_allocation_state = [d \in DeccDevices |-> "available"]
    /\ test_device_state = [d \in DeccDevices |-> "ONLINE"]
    /\ task_state = [d \in DeccDevices |-> TRUE]
    /\ device_sn = [d \in DeccDevices |-> d]
    /\ global_device_filter = <<>>
    /\ is_execute = TRUE
    /\ mode = "decc"
    /\ job_options \in [DeccJobs -> DeccOptionProfiles]
    /\ test_drivers = [i \in 1..NDeccJobs |-> i]
    /\ sched_pc = "loop"
    /\ environment = NoEnvironment
    /\ opt_idx = 1
    /\ th_pc = [j \in DeccJobs |-> "none"]
    /\ th_env = [j \in DeccJobs |-> <<>>]
    /\ th_driver = [j \in DeccJobs |-> FALSE]
    /\ th_error = [j \in DeccJobs |-> FALSE]
    /\ current_driver_threads = {}
    /\ message_queue = <<>>
    /\ mon_pc = "loop"
    /\ terminate_result = 0
    /\ term_pc = "idle"
    /\ report = [j \in DeccJobs |-> ""]
    /\ need_kit_setup = [d \in DeccDevices |-> TRUE]
    /\ kit_setups = <<>>
    /\ used_devices = {}
    /\ kit_idx = <<>>
    /\ device_label \in [DeccDevices -> {"ipcamera", "phone"}]
    /\ task_unused_env = {}

\* _dynamic_concurrent_execute up to the return of
\* __allocate_environment__: the environment is complete, or it is freed
\* and, when check_device_exist fails, DeviceError drops the job.
DeccAllocate ==
    /\ sched_pc = "loop"
    /\ test_drivers # <<>>
    /\ LET options == job_options[Head(test_drivers)]
           applied == apply_environment(options, device_allocation_state,
                                        <<>>)
       IN  IF Len(applied.devices) = Len(options)
           THEN /\ device_allocation_state' = applied.das
                /\ environment' = [none |-> FALSE,
                                   devices |-> applied.devices]
                /\ sched_pc' = "check"
                /\ UNCHANGED <<test_drivers, report>>
           ELSE /\ ~check_device_exist(options, device_allocation_state, {})
                /\ report' = report_not_executed(
                                 report, <<Head(test_drivers)>>,
                                 DeviceErrorMessage)
                /\ test_drivers' = handle_device_error_queue(test_drivers)
                /\ UNCHANGED <<device_allocation_state, environment,
                               sched_pc>>
    /\ UNCHANGED <<mgrVars, rerunVars, actionVars, kitVars, modVars, deccVars,
                   devices_list, test_device_state, task_state, device_sn,
                   global_device_filter, is_execute, mode, job_options,
                   opt_idx, threadVars, monVars, term_pc, compVars, histVars,
                   confVars, parseVars, ohVars, jsVars, existVars, concVars,
                   execVars, xmlVars, sptVars, instVars, envVars>>

\* _dynamic_concurrent_execute from _decc_task_setup to the end of the
\* pass: a failed check frees the environment, sets it aside and reports
\* a load error; a passed one starts the driver thread.
DeccTaskSetup(spt_low) ==
    /\ sched_pc = "check"
    /\ LET j == next_test_driver(test_drivers)
           devs == environment.devices
           state == decc_task_setup_state(devs, task_state, spt_low)
       IN  /\ task_state' = state
           /\ need_kit_setup' = decc_task_setup_need(devs, need_kit_setup)
           /\ IF \E d \in Range(devs) : ~state[d]
              THEN /\ device_allocation_state' =
                          release_environment(device_allocation_state, devs)
                   /\ task_unused_env' = task_unused_env \cup {devs}
                   /\ report' = report_not_executed(report, <<j>>,
                                                    LoadErrorMessage)
                   /\ UNCHANGED <<used_devices, th_pc, th_env,
                                  current_driver_threads>>
              ELSE /\ used_devices' = append_used_devices(used_devices, devs)
                   /\ th_pc' = [th_pc EXCEPT ![j] = "execute"]
                   /\ th_env' = [th_env EXCEPT ![j] = devs]
                   /\ current_driver_threads' =
                          current_driver_threads \cup {j}
                   /\ UNCHANGED <<device_allocation_state, task_unused_env,
                                  report>>
    /\ test_drivers' = Tail(test_drivers)
    /\ environment' = NoEnvironment
    /\ sched_pc' = "loop"
    /\ UNCHANGED <<mgrVars, rerunVars, actionVars, modVars, devices_list,
                   test_device_state, device_sn, global_device_filter,
                   is_execute, mode, job_options, opt_idx, th_driver,
                   th_error, message_queue, mon_pc, terminate_result, term_pc,
                   kit_setups, kit_idx, device_label, compVars, histVars,
                   confVars, parseVars, ohVars, jsVars, existVars, concVars,
                   execVars, xmlVars, sptVars, instVars, envVars>>

\* DriversThread.run and _handle_finally: the driver has run, the
\* environment is freed and the monitor takes the thread off the table.
DeccThreadEnd(j) ==
    /\ th_pc[j] = "execute"
    /\ th_pc' = [th_pc EXCEPT ![j] = "ended"]
    /\ report' = check_result_report(report, j, "result")
    /\ device_allocation_state' =
           release_environment(device_allocation_state, th_env[j])
    /\ current_driver_threads' = current_driver_threads \ {j}
    /\ UNCHANGED <<mgrVars, rerunVars, actionVars, kitVars, modVars, deccVars,
                   devices_list, test_device_state, task_state, device_sn,
                   global_device_filter, is_execute, mode, job_options,
                   test_drivers, sched_pc, environment, opt_idx, th_env,
                   th_driver, th_error, message_queue, mon_pc,
                   terminate_result, term_pc, compVars, histVars, confVars,
                   parseVars, ohVars, jsVars, existVars, concVars, execVars,
                   xmlVars, sptVars, instVars, envVars>>

\* _dynamic_concurrent_execute: the queue is empty, the monitor thread is
\* over, then _do_taskkit_teardown(used_devices, task_unused_env).
DeccTeardown ==
    /\ sched_pc = "loop"
    /\ test_drivers = <<>>
    /\ current_driver_threads = {}
    /\ need_kit_setup' =
           [d \in DOMAIN need_kit_setup |->
               IF d \in unused_devices(task_unused_env) THEN TRUE
               ELSE do_taskkit_teardown(need_kit_setup, used_devices)[d]]
    /\ task_state' =
           [d \in DOMAIN task_state |->
               IF d \in unused_devices(task_unused_env) THEN TRUE
               ELSE task_state[d]]
    /\ sched_pc' = "done"
    /\ mon_pc' = "ended"
    /\ UNCHANGED <<mgrVars, rerunVars, actionVars, modVars, deccVars,
                   devices_list, device_allocation_state, test_device_state,
                   device_sn, global_device_filter, is_execute, mode,
                   job_options, test_drivers, environment, opt_idx,
                   threadVars, current_driver_threads, message_queue,
                   terminate_result, term_pc, report, kit_setups,
                   used_devices, kit_idx, compVars, histVars, confVars,
                   parseVars, ohVars, jsVars, existVars, concVars, execVars,
                   xmlVars, sptVars, instVars, envVars>>

DeccNext ==
    \/ DeccAllocate
    \/ \E spt_low \in SUBSET DeccDevices : DeccTaskSetup(spt_low)
    \/ \E j \in DeccJobs : DeccThreadEnd(j)
    \/ DeccTeardown

DeccSpec == DeccInit /\ [][DeccNext]_vars

\* ------------------------------------------------------------ component tests
\* A task with a component kit (config.component_base_kit) and a
\* component_mapper: component_task_setup runs before the environment of
\* each module is allocated.
NCompJobs == 2
NCompDevices == 2
CompJobs == 1..NCompJobs
CompDevices == 1..NCompDevices
Subsystems == {"s1", "s2"}
Parts == {"p1", "p2"}

\* ComponentKit.get_white_list(): <<subsystems, parts>>, not both empty
white_list == <<{"s1"}, {"p1"}>>

\* ComponentKit.__setup__: the labels whose devices are asked for their
\* components
ComponentLabels == {"phone", "watch", "car", "tv", "tablet", "ivi"}

\* ComponentKit.__setup__(device) for every device of devices_list: a
\* device without support_component and with one of the labels gets
\* <<subsystems, parts>> from the white list and its cap file.
RECURSIVE component_setup(_, _)
component_setup(list, support) ==
    IF list = <<>> THEN support
    ELSE LET d == Head(list)
         IN  IF d \in DOMAIN support \/ label(d) \notin ComponentLabels
             THEN component_setup(Tail(list), support)
             ELSE component_setup(
                      Tail(list),
                      [x \in DOMAIN support \cup {d} |->
                          IF x = d
                          THEN <<white_list[1],
                                 device_components[d] \cup white_list[2]>>
                          ELSE support[x]])

\* component_task_setup: "if _subsystem in cache_subsystem or _part in
\* cache_subsystem"
is_hit(required, subsystems) ==
    required[1] \in subsystems \/ required[2] \in subsystems

CompInit ==
    /\ MgrIdle
    /\ EnvIdle
    /\ InstIdle
    /\ SptIdle
    /\ XmlIdle
    /\ ExecIdle
    /\ ConcIdle
    /\ ExistIdle
    /\ JsIdle
    /\ OhIdle
    /\ ParseIdle
    /\ ConfIdle
    /\ HistIdle
    /\ ModIdle
    /\ device_label \in [CompDevices -> {"phone", "ipcamera"}]
    /\ task_unused_env = {}
    /\ RerunIdle
    /\ ActionIdle
    /\ KitIdle
    /\ devices_list = [i \in 1..NCompDevices |-> i]
    /\ device_allocation_state = [d \in CompDevices |-> "available"]
    /\ test_device_state = [d \in CompDevices |-> "ONLINE"]
    /\ task_state = [d \in CompDevices |-> TRUE]
    /\ device_sn = [d \in CompDevices |-> d]
    /\ global_device_filter = <<>>
    /\ is_execute = TRUE
    /\ mode = "factory"
    /\ job_options = [j \in CompJobs |-> <<Option("")>>]
    /\ test_drivers = [i \in 1..NCompJobs |-> i]
    /\ sched_pc = "loop"
    /\ environment = NoEnvironment
    /\ opt_idx = 1
    /\ th_pc = [j \in CompJobs |-> "none"]
    /\ th_env = [j \in CompJobs |-> <<>>]
    /\ th_driver = [j \in CompJobs |-> FALSE]
    /\ th_error = [j \in CompJobs |-> FALSE]
    /\ current_driver_threads = {}
    /\ message_queue = <<>>
    /\ mon_pc = "loop"
    /\ terminate_result = 0
    /\ term_pc = "idle"
    /\ report = [j \in CompJobs |-> ""]
    /\ device_components \in [CompDevices -> SUBSET {"p2"}]
    /\ component_mapper \in [CompJobs -> Subsystems \X Parts]
    /\ support_component = <<>>
    /\ cache_subsystem = {}
    /\ cache_part = {}
    /\ comp_warned = {}

\* _get_device_options: every option of the module carries
\* required_component = component_mapper[module].
component_options(j) ==
    [i \in DOMAIN job_options[j] |->
        [label |-> job_options[j][i].label,
         device_sn |-> job_options[j][i].device_sn,
         required_component |-> component_mapper[j]]]

\* Scheduler.component_task_setup for the module at the head of the queue.
CompTaskSetup ==
    /\ sched_pc = "loop"
    /\ test_drivers # <<>>
    /\ LET j == next_test_driver(test_drivers)
           required == component_mapper[j]
           support == IF is_hit(required, cache_subsystem)
                      THEN support_component
                      ELSE component_setup(devices_list, support_component)
           subsystems == cache_subsystem
                             \cup UNION {support[d][1] : d \in DOMAIN support}
       IN  /\ support_component' = support
           /\ cache_subsystem' = subsystems
           /\ cache_part' = cache_part
                                \cup UNION {support[d][2] : d \in DOMAIN support}
           /\ comp_warned' = IF is_hit(required, subsystems)
                             THEN comp_warned ELSE comp_warned \cup {j}
    /\ sched_pc' = "alloc"
    /\ UNCHANGED <<mgrVars, rerunVars, actionVars, kitVars, modVars, deccVars,
                   devVars, is_execute, mode, job_options, test_drivers,
                   environment, opt_idx, threadVars, monVars, term_pc, report,
                   device_components, component_mapper, histVars, confVars,
                   parseVars, ohVars, jsVars, existVars, concVars, execVars,
                   xmlVars, sptVars, instVars, envVars>>

\* _dynamic_concurrent_execute from __allocate_environment__ to the end of
\* the pass: the thread of the module is started with its environment, or
\* DeviceError drops the module.
CompAllocate ==
    /\ sched_pc = "alloc"
    /\ LET j == next_test_driver(test_drivers)
           options == component_options(j)
           applied == apply_environment(options, device_allocation_state,
                                        <<>>)
       IN  IF Len(applied.devices) = Len(options)
           THEN /\ device_allocation_state' = applied.das
                /\ th_pc' = [th_pc EXCEPT ![j] = "execute"]
                /\ th_env' = [th_env EXCEPT ![j] = applied.devices]
                /\ UNCHANGED report
           ELSE /\ ~check_device_exist(options, device_allocation_state, {})
                /\ report' = report_not_executed(report, <<j>>,
                                                 DeviceErrorMessage)
                /\ UNCHANGED <<device_allocation_state, th_pc, th_env>>
    /\ test_drivers' = Tail(test_drivers)
    /\ sched_pc' = "loop"
    /\ UNCHANGED <<mgrVars, rerunVars, actionVars, kitVars, modVars, deccVars,
                   compVars, devices_list, test_device_state, task_state,
                   device_sn, global_device_filter, is_execute, mode,
                   job_options, environment, opt_idx, th_driver, th_error,
                   monVars, term_pc, histVars, confVars, parseVars, ohVars,
                   jsVars, existVars, concVars, execVars, xmlVars, sptVars,
                   instVars, envVars>>

\* DriversThread.run and _handle_finally: the driver has run and the
\* environment is freed.
CompThreadEnd(j) ==
    /\ th_pc[j] = "execute"
    /\ th_pc' = [th_pc EXCEPT ![j] = "ended"]
    /\ report' = check_result_report(report, j, "result")
    /\ device_allocation_state' =
           release_environment(device_allocation_state, th_env[j])
    /\ UNCHANGED <<mgrVars, rerunVars, actionVars, kitVars, modVars, deccVars,
                   compVars, devices_list, test_device_state, task_state,
                   device_sn, global_device_filter, is_execute, mode,
                   job_options, test_drivers, sched_pc, environment, opt_idx,
                   th_env, th_driver, th_error, monVars, term_pc, histVars,
                   confVars, parseVars, ohVars, jsVars, existVars, concVars,
                   execVars, xmlVars, sptVars, instVars, envVars>>

CompNext ==
    \/ CompTaskSetup
    \/ CompAllocate
    \/ \E j \in CompJobs : CompThreadEnd(j)

CompSpec == CompInit /\ [][CompNext]_vars

\* -------------------------------------------------------------- history retry
\* A task with history_report_path (run --retry), outside decc mode.
NHistJobs == 2
NHistDevices == 1
HistJobs == 1..NHistJobs
HistDevices == 1..NHistDevices

\* module names, as the parts between the dots: "a", "a.x", "b"
ModuleNames == {<<"a">>, <<"a", "x">>, <<"b">>}

\* the largest number of unsuccessful entries under one key
MaxUnsuccessful == 2

\* str(module_name).split(".")[0]
first_part(name) == <<Head(name)>>

\* DriversThread._get_unpassed_test_params: the entries of the module,
\* under its name or else under the first part of its name (the number
\* of "class#method" entries).
unpassed_test_params(params, name) ==
    IF params[name] # 0 THEN params[name] ELSE params[first_part(name)]

\* Scheduler.is_module_need_retry, outside decc mode.
is_module_need_retry_exact(params, name) ==
    \E key \in DOMAIN params : params[key] # 0 /\ params[name] # 0

is_module_need_retry(params, name) ==
    /\ \E key \in DOMAIN params : params[key] # 0
    /\ \/ params[name] # 0
       \/ params[first_part(name)] # 0

HistoryResult == "history result"

HistInit ==
    /\ MgrIdle
    /\ EnvIdle
    /\ InstIdle
    /\ SptIdle
    /\ XmlIdle
    /\ ExecIdle
    /\ ConcIdle
    /\ ExistIdle
    /\ JsIdle
    /\ OhIdle
    /\ ParseIdle
    /\ ConfIdle
    /\ CompIdle
    /\ DeccIdle
    /\ ModIdle
    /\ RerunIdle
    /\ ActionIdle
    /\ KitIdle
    /\ devices_list = [i \in 1..NHistDevices |-> i]
    /\ device_allocation_state = [d \in HistDevices |-> "available"]
    /\ test_device_state = [d \in HistDevices |-> "ONLINE"]
    /\ task_state = [d \in HistDevices |-> TRUE]
    /\ device_sn = [d \in HistDevices |-> d]
    /\ global_device_filter = <<>>
    /\ is_execute = TRUE
    /\ mode = "factory"
    /\ job_options \in [HistJobs -> {<<Option("phone")>>, <<Option("tv")>>}]
    /\ test_drivers = [i \in 1..NHistJobs |-> i]
    /\ sched_pc = "loop"
    /\ environment = NoEnvironment
    /\ opt_idx = 1
    /\ th_pc = [j \in HistJobs |-> "none"]
    /\ th_env = [j \in HistJobs |-> <<>>]
    /\ th_driver = [j \in HistJobs |-> FALSE]
    /\ th_error = [j \in HistJobs |-> FALSE]
    /\ current_driver_threads = {}
    /\ message_queue = <<>>
    /\ mon_pc = "loop"
    /\ terminate_result = 0
    /\ term_pc = "idle"
    /\ report = [j \in HistJobs |-> ""]
    /\ module_name \in [HistJobs -> ModuleNames]
    /\ unsuccessful_params \in [ModuleNames -> 0..MaxUnsuccessful]
    /\ history_result_exists \in [HistJobs -> BOOLEAN]

\* _dynamic_concurrent_execute, the pass for a module that needs no retry:
\* _append_history_result copies the history result and the module is
\* popped, or the copy raises ParamError and the loop is left.
HistPassed ==
    /\ sched_pc = "loop"
    /\ test_drivers # <<>>
    /\ LET j == next_test_driver(test_drivers)
       IN  /\ ~is_module_need_retry(unsuccessful_params, module_name[j])
           /\ IF history_result_exists[j]
              THEN /\ report' = [report EXCEPT ![j] = HistoryResult]
                   /\ test_drivers' = Tail(test_drivers)
                   /\ UNCHANGED sched_pc
              ELSE /\ sched_pc' = "ParamError"
                   /\ UNCHANGED <<report, test_drivers>>
    /\ UNCHANGED <<mgrVars, rerunVars, actionVars, kitVars, modVars, deccVars,
                   compVars, histVars, devVars, is_execute, mode, job_options,
                   environment, opt_idx, threadVars, monVars, term_pc,
                   confVars, parseVars, ohVars, jsVars, existVars, concVars,
                   execVars, xmlVars, sptVars, instVars, envVars>>

\* _dynamic_concurrent_execute, the pass for a module that needs retry:
\* the environment is allocated and the thread started, or DeviceError
\* drops the module.
HistRetry ==
    /\ sched_pc = "loop"
    /\ test_drivers # <<>>
    /\ LET j == next_test_driver(test_drivers)
           options == job_options[j]
           applied == apply_environment(options, device_allocation_state,
                                        <<>>)
       IN  /\ is_module_need_retry(unsuccessful_params, module_name[j])
           /\ IF Len(applied.devices) = Len(options)
              THEN /\ device_allocation_state' = applied.das
                   /\ th_pc' = [th_pc EXCEPT ![j] = "execute"]
                   /\ th_env' = [th_env EXCEPT ![j] = applied.devices]
                   /\ UNCHANGED report
              ELSE /\ ~check_device_exist(options, device_allocation_state,
                                          {})
                   /\ report' = report_not_executed(report, <<j>>,
                                                    DeviceErrorMessage)
                   /\ UNCHANGED <<device_allocation_state, th_pc, th_env>>
    /\ test_drivers' = Tail(test_drivers)
    /\ UNCHANGED <<mgrVars, rerunVars, actionVars, kitVars, modVars, deccVars,
                   compVars, histVars, devices_list, test_device_state,
                   task_state, device_sn, global_device_filter, is_execute,
                   mode, job_options, sched_pc, environment, opt_idx,
                   th_driver, th_error, monVars, term_pc, confVars, parseVars,
                   ohVars, jsVars, existVars, concVars, execVars, xmlVars,
                   sptVars, instVars, envVars>>

\* DriversThread.run and _handle_finally: the driver has run and the
\* environment is freed.
HistThreadEnd(j) ==
    /\ th_pc[j] = "execute"
    /\ th_pc' = [th_pc EXCEPT ![j] = "ended"]
    /\ report' = check_result_report(report, j, "result")
    /\ device_allocation_state' =
           release_environment(device_allocation_state, th_env[j])
    /\ UNCHANGED <<mgrVars, rerunVars, actionVars, kitVars, modVars, deccVars,
                   compVars, histVars, devices_list, test_device_state,
                   task_state, device_sn, global_device_filter, is_execute,
                   mode, job_options, test_drivers, sched_pc, environment,
                   opt_idx, th_env, th_driver, th_error, monVars, term_pc,
                   confVars, parseVars, ohVars, jsVars, existVars, concVars,
                   execVars, xmlVars, sptVars, instVars, envVars>>

HistNext ==
    \/ HistPassed
    \/ HistRetry
    \/ \E j \in HistJobs : HistThreadEnd(j)

HistSpec == HistInit /\ [][HistNext]_vars

\* ------------------------------------------------------ configuration per job
\* Config objects and the dict objects they refer to.  A config holds the
\* address of its testargs dict; heap maps an address to the dict.
NConfJobs == 2
ConfJobs == 1..NConfJobs

NoConfig == [testargs |-> 0, environment |-> 0, history_report_path |-> FALSE]

EmptyDict == [k \in {} |-> <<>>]

\* the testargs of the task: nothing, a class filter, a test filter
TaskTestArgs ==
    {EmptyDict, "class" :> <<"c1">>, "test" :> <<"t2">>,
     ("class" :> <<"c1">>) @@ ("test" :> <<"t2">>)}

ConfModuleName == "m"

\* what _get_unpassed_test_params returns for a job
UnpassedParams ==
    {<<>>, <<ConfModuleName>>, <<"t1">>, <<"t1", "t1">>, <<"t1", "t2">>}

\* what a driver writes into config.testargs
DriverArgs == {"class" :> <<"c2">>, "test" :> <<"t3">>}

\* copy.copy(config): the new config refers to the same dict object
shallow_copy(h, config) == [heap |-> h, config |-> config]

\* copy.deepcopy(config): the dict object is copied to a fresh address
deepcopy(h, config) ==
    [heap |-> Append(h, h[config.testargs]),
     config |-> [config EXCEPT !.testargs = Len(h) + 1]]

\* Config.update(params): every attribute of params is set on the config
update(config, params) ==
    [k \in DOMAIN config |-> IF k \in DOMAIN params THEN params[k]
                             ELSE config[k]]

\* for p in unpassed: if p not in test_params: test_params.append(p)
RECURSIVE test_params(_, _)
test_params(unpassed, acc) ==
    IF unpassed = <<>> THEN acc
    ELSE test_params(Tail(unpassed),
                     IF \E i \in DOMAIN acc : acc[i] = Head(unpassed)
                     THEN acc ELSE Append(acc, Head(unpassed)))

\* test_args["test"] = test_params; test_args.pop("class")
retry_test_args(test_args, unpassed) ==
    LET with_test == ("test" :> test_params(unpassed, <<>>)) @@ test_args
    IN  [k \in DOMAIN with_test \ {"class"} |-> with_test[k]]

ConfInit ==
    /\ SchedIdle
    /\ EnvIdle
    /\ InstIdle
    /\ SptIdle
    /\ XmlIdle
    /\ ExecIdle
    /\ ConcIdle
    /\ ExistIdle
    /\ JsIdle
    /\ OhIdle
    /\ ParseIdle
    /\ MgrIdle
    /\ CompIdle
    /\ DeccIdle
    /\ ModIdle
    /\ RerunIdle
    /\ ActionIdle
    /\ KitIdle
    /\ HistIdle
    /\ devices_list = <<>>
    /\ device_allocation_state = <<>>
    /\ test_device_state = <<>>
    /\ task_state = <<>>
    /\ device_sn = <<>>
    /\ global_device_filter = <<>>
    /\ \E args \in TaskTestArgs : heap = <<args>>
    /\ task_config \in {[NoConfig EXCEPT !.testargs = 1,
                                         !.history_report_path = b] :
                           b \in BOOLEAN}
    /\ job_config = [j \in ConfJobs |-> NoConfig]

\* DriversThread._get_driver_request: the config of the job is a deep copy
\* of the task's, with the job's environment; in a history retry the
\* unpassed tests are written into its testargs.
ConfGetDriverRequest(j, unpassed) ==
    /\ job_config[j] = NoConfig
    /\ LET copied == deepcopy(heap, task_config)
           config == [update(NoConfig, copied.config)
                          EXCEPT !.environment = j]
           h == copied.heap
           address == config.testargs
       IN  /\ job_config' = [job_config EXCEPT ![j] = config]
           /\ heap' =
                  IF /\ config.history_report_path
                     /\ unpassed # <<>>
                     /\ unpassed[1] # ConfModuleName
                  THEN [h EXCEPT ![address] = retry_test_args(@, unpassed)]
                  ELSE h
    /\ UNCHANGED <<devVars, schedVars, mgrVars, rerunVars, actionVars,
                   kitVars, modVars, deccVars, compVars, histVars,
                   task_config, parseVars, ohVars, jsVars, existVars,
                   concVars, execVars, xmlVars, sptVars, instVars, envVars>>

\* the driver of job j writes an entry into the testargs of its request
ConfDriverMutate(j, args) ==
    /\ job_config[j] # NoConfig
    /\ heap' = [heap EXCEPT ![job_config[j].testargs] = args @@ @]
    /\ UNCHANGED <<devVars, schedVars, mgrVars, rerunVars, actionVars,
                   kitVars, modVars, deccVars, compVars, histVars,
                   task_config, job_config, parseVars, ohVars, jsVars,
                   existVars, concVars, execVars, xmlVars, sptVars, instVars,
                   envVars>>

ConfNext ==
    \/ \E j \in ConfJobs, unpassed \in UnpassedParams :
           ConfGetDriverRequest(j, unpassed)
    \/ \E j \in ConfJobs, args \in DriverArgs : ConfDriverMutate(j, args)

ConfSpec == ConfInit /\ [][ConfNext]_vars

\* -------------------------------------------------------------- result parsers
\* The lite parsers, fed one line at a time, with one listener.  A line is
\* named by the marker it carries:
\*   suites_start  "[==========] Running N tests from"  (CppTestParserLite)
\*                 "Framework inited."                   (CTestParser)
\*                 "[start] start run suites"            (JSUnitParserLite)
\*   suite_start   "[----------] N tests from X" / "Start to run test
\*                 suite:" / "[suite start]"
\*   suite_end     "[----------] ... (N ms total)" / "N Tests N Failures
\*                 N Ignored" / "[suite end]"
\*   suites_end    "[==========] ... (N ms total)" / "Framework
\*                 finished." / "[end] run suites end"
\*   other         a line without marker
MaxParserLines == 3

Parsers == {"CppTestParserLite", "CTestParser", "JSUnitParserLite"}

LineKinds == {"suites_start", "suite_start", "suite_end", "suites_end",
              "other"}

\* StateRecorder.suites_is_started, suites_is_running, suite_is_running
suites_is_started(suites) == suites # "none"

suites_is_running(suites) == suites = "started"

suite_is_running(suite) == suite = "started"

\* the lines a parser looks at: those after the suites start, and the
\* suites-start line itself; "[==========]" is also on the suites-end line
\* of CppTestParserLite
is_parsed(p, suites, line) ==
    \/ suites_is_started(suites)
    \/ line = "suites_start"
    \/ p = "CppTestParserLite" /\ line = "suites_end"

\* the listener calls made by parse(line)
parse_events(p, suites, suite, line) ==
    IF ~is_parsed(p, suites, line) THEN <<>>
    ELSE CASE line = "suites_start" -> <<"suites_started">>
           [] line = "suites_end" ->
                  IF p = "CppTestParserLite" /\ ~suites_is_running(suites)
                  THEN <<>> ELSE <<"suites_ended">>
           [] line = "suite_start" ->
                  IF p = "CTestParser" /\ suite_is_running(suite)
                  THEN <<>> ELSE <<"suite_started">>
           [] line = "suite_end" -> <<"suite_ended">>
           [] OTHER -> <<>>

\* the listener calls made by __done__()
done_events(p) ==
    CASE p = "CppTestParserLite" -> <<"suite_ended", "suites_ended">>
      [] p = "CTestParser" -> <<"suites_ended">>
      [] p = "JSUnitParserLite" -> <<>>

ParseInit ==
    /\ SchedIdle
    /\ EnvIdle
    /\ InstIdle
    /\ SptIdle
    /\ XmlIdle
    /\ ExecIdle
    /\ ConcIdle
    /\ ExistIdle
    /\ JsIdle
    /\ OhIdle
    /\ MgrIdle
    /\ ConfIdle
    /\ HistIdle
    /\ CompIdle
    /\ DeccIdle
    /\ ModIdle
    /\ RerunIdle
    /\ ActionIdle
    /\ KitIdle
    /\ devices_list = <<>>
    /\ device_allocation_state = <<>>
    /\ test_device_state = <<>>
    /\ task_state = <<>>
    /\ device_sn = <<>>
    /\ global_device_filter = <<>>
    /\ parser \in Parsers
    /\ fed = <<>>
    /\ events = <<>>
    /\ current_suites = "none"
    /\ current_suite = "none"
    /\ parser_done = FALSE

\* __process__([line]): parse(line) and the handle_*_tag it calls
ParserProcess(line) ==
    /\ ~parser_done
    /\ Len(fed) < MaxParserLines
    /\ fed' = Append(fed, line)
    /\ events' = events \o parse_events(parser, current_suites,
                                        current_suite, line)
    /\ LET called == parse_events(parser, current_suites, current_suite,
                                  line)
       IN  /\ current_suites' =
                  CASE called = <<"suites_started">> -> "started"
                    [] called = <<"suites_ended">> -> "completed"
                    [] OTHER -> current_suites
           /\ current_suite' =
                  CASE called = <<"suite_started">> -> "started"
                    [] called = <<"suite_ended">> -> "completed"
                    [] OTHER -> current_suite
    /\ UNCHANGED <<devVars, schedVars, mgrVars, rerunVars, actionVars,
                   kitVars, modVars, deccVars, compVars, histVars, confVars,
                   parser, parser_done, ohVars, jsVars, existVars, concVars,
                   execVars, xmlVars, sptVars, instVars, envVars>>

\* __done__()
ParserDone ==
    /\ ~parser_done
    /\ parser_done' = TRUE
    /\ events' = events \o done_events(parser)
    /\ current_suites' = IF parser = "JSUnitParserLite" THEN current_suites
                         ELSE "none"
    /\ current_suite' = IF parser = "CppTestParserLite" THEN "completed"
                        ELSE current_suite
    /\ UNCHANGED <<devVars, schedVars, mgrVars, rerunVars, actionVars,
                   kitVars, modVars, deccVars, compVars, histVars, confVars,
                   parser, fed, ohVars, jsVars, existVars, concVars, execVars,
                   xmlVars, sptVars, instVars, envVars>>

ParseNext ==
    \/ \E line \in LineKinds : ParserProcess(line)
    \/ ParserDone

ParseSpec == ParseInit /\ [][ParseNext]_vars

\* ---------------------------------------------------------- OHJSUnitTestDriver
\* _do_test_run with rerun enabled: the first pass, _rerun_twice and
\* _rerun_third.  A pass reports some of the tests it was asked for, or
\* the shell command raises.
\* openharmony.py: OHJSUnitTestRunner.MAX_RETRY_TIMES
MAX_RETRY_TIMES == 3

\* one call of runner.notify_finished(), as it counts on retry_times
notify_finished_uncounted(times) == times

notify_finished(times) == times - 1

OhInit ==
    /\ SchedIdle
    /\ EnvIdle
    /\ InstIdle
    /\ SptIdle
    /\ XmlIdle
    /\ ExecIdle
    /\ ConcIdle
    /\ ExistIdle
    /\ JsIdle
    /\ MgrIdle
    /\ ParseIdle
    /\ ConfIdle
    /\ HistIdle
    /\ CompIdle
    /\ DeccIdle
    /\ ModIdle
    /\ RerunIdle
    /\ ActionIdle
    /\ KitIdle
    /\ devices_list = <<>>
    /\ device_allocation_state = <<>>
    /\ test_device_state = <<>>
    /\ task_state = <<>>
    /\ device_sn = <<>>
    /\ global_device_filter = <<>>
    /\ oh_pc = "collect"
    /\ test_to_run \in SUBSET Tests
    /\ oh_expected = {}
    /\ retry_times = MAX_RETRY_TIMES
    /\ passes = 0
    /\ notify_count = 0

\* _do_test_run: with no test collected the module is run once and the
\* runner notified, otherwise _run_with_rerun takes over.
OhDoTestRun(raised) ==
    /\ oh_pc = "collect"
    /\ IF test_to_run = {}
       THEN /\ passes' = passes + 1
            /\ IF raised
               THEN /\ oh_pc' = "aborted"
                    /\ UNCHANGED <<retry_times, notify_count>>
               ELSE /\ oh_pc' = "done"
                    /\ retry_times' = notify_finished(retry_times)
                    /\ notify_count' = notify_count + 1
            /\ UNCHANGED oh_expected
       ELSE /\ ~raised
            /\ oh_pc' = "first"
            /\ oh_expected' = test_to_run
            /\ UNCHANGED <<retry_times, passes, notify_count>>
    /\ UNCHANGED <<devVars, schedVars, mgrVars, rerunVars, actionVars,
                   kitVars, modVars, deccVars, compVars, histVars, confVars,
                   parseVars, test_to_run, jsVars, existVars, concVars,
                   execVars, xmlVars, sptVars, instVars, envVars>>

\* _run_with_rerun and _rerun_twice: one pass, retry_times is decremented,
\* and either the runner is notified or the next rerun takes the tests
\* that are still missing.
OhRunPass(test_run, raised) ==
    /\ oh_pc \in {"first", "twice"}
    /\ test_run \subseteq oh_expected
    /\ passes' = passes + 1
    /\ IF raised
       THEN /\ oh_pc' = "aborted"
            /\ UNCHANGED <<oh_expected, retry_times, notify_count>>
       ELSE IF Cardinality(test_run) < Cardinality(oh_expected)
               /\ remove_test(oh_expected, test_run) # {}
       THEN /\ oh_expected' = remove_test(oh_expected, test_run)
            /\ oh_pc' = IF oh_pc = "first" THEN "twice" ELSE "third"
            /\ retry_times' = retry_times - 1
            /\ UNCHANGED notify_count
       ELSE /\ oh_pc' = "done"
            /\ retry_times' = notify_finished(retry_times - 1)
            /\ notify_count' = notify_count + 1
            /\ UNCHANGED oh_expected
    /\ UNCHANGED <<devVars, schedVars, mgrVars, rerunVars, actionVars,
                   kitVars, modVars, deccVars, compVars, histVars, confVars,
                   parseVars, test_to_run, jsVars, existVars, concVars,
                   execVars, xmlVars, sptVars, instVars, envVars>>

\* _rerun_third: the last pass, then the runner is notified.
OhRerunThird(raised) ==
    /\ oh_pc = "third"
    /\ passes' = passes + 1
    /\ IF raised
       THEN /\ oh_pc' = "aborted"
            /\ UNCHANGED <<retry_times, notify_count>>
       ELSE /\ oh_pc' = "done"
            /\ retry_times' = notify_finished(retry_times)
            /\ notify_count' = notify_count + 1
    /\ UNCHANGED <<devVars, schedVars, mgrVars, rerunVars, actionVars,
                   kitVars, modVars, deccVars, compVars, histVars, confVars,
                   parseVars, test_to_run, oh_expected, jsVars, existVars,
                   concVars, execVars, xmlVars, sptVars, instVars, envVars>>

OhNext ==
    \/ \E raised \in BOOLEAN : OhDoTestRun(raised)
    \/ \E test_run \in SUBSET Tests, raised \in BOOLEAN :
           OhRunPass(test_run, raised)
    \/ \E raised \in BOOLEAN : OhRerunThird(raised)

OhSpec == OhInit /\ [][OhNext]_vars

\* ------------------------------------------------ JSUnitTestDriver, inner path
\* The last reading of the device log by read_device_log_timeout, one line
\* at a time, and generate_console_output with the repair of the suite
\* marks.  A line is named by the mark it carries; every line is of the
\* process whose pid the suites-start line gave.
\*   start        "[start] start run suites"
\*   suite_start  "[suite start]"
\*   suite_end    "[suite end]"
\*   test         "[pass]" / "[fail]"
\*   end          "[end] run suites end"
MaxLogLines == 5

LogLines == {"start", "suite_start", "suite_end", "test", "end"}

\* list.insert(index, x), indexes from 0, a negative index from the tail
list_insert_after(list, index, x) ==
    LET at == IF index >= 0 THEN Min({index, Len(list)})
              ELSE IF Len(list) + index < 0 THEN 0
              ELSE Len(list) + index
    IN  IF at >= Len(list) THEN Append(list, x)
        ELSE SubSeq(list, 1, at + 1) \o <<x>>
             \o SubSeq(list, at + 2, Len(list))

list_insert(list, index, x) ==
    LET at == IF index >= 0 THEN Min({index, Len(list)})
              ELSE IF Len(list) + index < 0 THEN 0
              ELSE Len(list) + index
    IN  SubSeq(list, 1, at) \o <<x>> \o SubSeq(list, at + 1, Len(list))

RECURSIVE sum(_)
sum(list) == IF list = <<>> THEN 0 ELSE Head(list) + sum(Tail(list))

\* JSUnitTestDriver._insert_suite_end, from position i of the labels on
RECURSIVE insert_suite_end(_, _, _)
insert_suite_end(i, labels, messages) ==
    IF i = Len(labels[1]) THEN messages
    ELSE IF labels[1][i + 1] # 1
    THEN insert_suite_end(i + 1, labels, messages)
    ELSE IF i + 1 = Len(labels[1])
    THEN insert_suite_end(i + 1, labels,
                          list_insert(messages, -1, "suite_end"))
    ELSE IF labels[1][i + 2] # 1
    THEN insert_suite_end(i + 1, labels, messages)
    ELSE insert_suite_end(
             i + 1,
             <<labels[1],
               [j \in DOMAIN labels[2] |->
                   IF j >= i + 2 THEN labels[2][j] + 1 ELSE labels[2][j]]>>,
             list_insert(messages, labels[2][i + 2], "suite_end"))

JsInit ==
    /\ SchedIdle
    /\ EnvIdle
    /\ InstIdle
    /\ SptIdle
    /\ XmlIdle
    /\ ExecIdle
    /\ ConcIdle
    /\ ExistIdle
    /\ MgrIdle
    /\ OhIdle
    /\ ParseIdle
    /\ ConfIdle
    /\ HistIdle
    /\ CompIdle
    /\ DeccIdle
    /\ ModIdle
    /\ RerunIdle
    /\ ActionIdle
    /\ KitIdle
    /\ devices_list = <<>>
    /\ device_allocation_state = <<>>
    /\ test_device_state = <<>>
    /\ task_state = <<>>
    /\ device_sn = <<>>
    /\ global_device_filter = <<>>
    /\ js_pc = "read"
    /\ message_list = <<>>
    /\ label_list = <<<<>>, <<>>>>
    /\ is_suites_end = FALSE

\* read_device_log_timeout: one line of the log.  Lines before the first
\* suites-start line are skipped, the suites-start line clears the lists,
\* the end mark ends the reading.
JsReadLine(line) ==
    /\ js_pc = "read"
    /\ Len(message_list) < MaxLogLines
    /\ LET cleared == line = "start"
           messages == IF cleared THEN <<>> ELSE message_list
           labels == IF cleared THEN <<<<>>, <<>>>> ELSE label_list
       IN  IF line # "start" /\ message_list = <<>>
           THEN UNCHANGED <<js_pc, message_list, label_list, is_suites_end>>
           ELSE /\ message_list' = Append(messages, line)
                /\ label_list' =
                       CASE line = "suite_end" ->
                                <<Append(labels[1], -1),
                                  Append(labels[2], Len(messages))>>
                         [] line = "suite_start" ->
                                <<Append(labels[1], 1),
                                  Append(labels[2], Len(messages))>>
                         [] OTHER -> labels
                /\ is_suites_end' = (line = "end")
                /\ js_pc' = IF line = "end" THEN "output" ELSE "read"
    /\ UNCHANGED <<devVars, schedVars, mgrVars, rerunVars, actionVars,
                   kitVars, modVars, deccVars, compVars, histVars, confVars,
                   parseVars, ohVars, existVars, concVars, execVars, xmlVars,
                   sptVars, instVars, envVars>>

\* read_device_log_timeout: the timeout is reached without the end mark.
JsTimeout ==
    /\ js_pc = "read"
    /\ js_pc' = "output"
    /\ UNCHANGED <<devVars, schedVars, mgrVars, rerunVars, actionVars,
                   kitVars, modVars, deccVars, compVars, histVars, confVars,
                   parseVars, ohVars, message_list, label_list, is_suites_end,
                   existVars, concVars, execVars, xmlVars, sptVars, instVars,
                   envVars>>

\* generate_console_output: the end mark is added when it was not read,
\* and the suite ends are inserted when the labels do not sum to zero.
JsGenerateConsoleOutput ==
    /\ js_pc = "output"
    /\ js_pc' = "analysed"
    /\ LET messages == IF is_suites_end THEN message_list
                       ELSE Append(message_list, "end")
       IN  message_list' =
               IF Len(label_list[1]) > 0 /\ sum(label_list[1]) # 0
               THEN insert_suite_end(0, label_list, messages)
               ELSE messages
    /\ UNCHANGED <<devVars, schedVars, mgrVars, rerunVars, actionVars,
                   kitVars, modVars, deccVars, compVars, histVars, confVars,
                   parseVars, ohVars, label_list, is_suites_end, existVars,
                   concVars, execVars, xmlVars, sptVars, instVars, envVars>>

JsNext ==
    \/ \E line \in LogLines : JsReadLine(line)
    \/ JsTimeout
    \/ JsGenerateConsoleOutput

JsSpec == JsInit /\ [][JsNext]_vars

\* ------------------------------------------------- check_device_exist alone
\* One manager with its devices in any allocation state, and a call of
\* check_device_exist with one or two device options.
NExistDevices == 2
ExistDevices == 1..NExistDevices

ExistOptions ==
    {Option("phone"), Option("tv"), Option(""),
     [label |-> "phone", device_sn |-> <<1>>]}

ExistOptionLists ==
    {<<o>> : o \in ExistOptions}
        \cup {<<o1, o2>> : o1 \in ExistOptions, o2 \in ExistOptions}

ExistInit ==
    /\ SchedIdle
    /\ EnvIdle
    /\ InstIdle
    /\ SptIdle
    /\ XmlIdle
    /\ ExecIdle
    /\ ConcIdle
    /\ MgrIdle
    /\ JsIdle
    /\ OhIdle
    /\ ParseIdle
    /\ ConfIdle
    /\ HistIdle
    /\ CompIdle
    /\ ModIdle
    /\ RerunIdle
    /\ ActionIdle
    /\ KitIdle
    /\ devices_list = [i \in 1..NExistDevices |-> i]
    /\ device_allocation_state \in
           [ExistDevices -> {"available", "allocated", "unavailable"}]
    /\ test_device_state = [d \in ExistDevices |-> "ONLINE"]
    /\ task_state = [d \in ExistDevices |-> TRUE]
    /\ device_sn = [d \in ExistDevices |-> d]
    /\ global_device_filter = <<>>
    /\ device_label \in [ExistDevices -> {"phone", "tv"}]
    /\ task_unused_env = {}
    /\ exist_pc = "check"
    /\ device_options \in ExistOptionLists
    /\ exist_result = FALSE

\* EnvironmentManager.check_device_exist(device_options)
CheckDeviceExist ==
    /\ exist_pc = "check"
    /\ exist_pc' = "checked"
    /\ exist_result' = check_device_exist(device_options,
                                          device_allocation_state, {})
    /\ UNCHANGED <<devVars, schedVars, mgrVars, rerunVars, actionVars,
                   kitVars, modVars, deccVars, compVars, histVars, confVars,
                   parseVars, ohVars, jsVars, device_options, concVars,
                   execVars, xmlVars, sptVars, instVars, envVars>>

\* the next call, with other options
ExistNextCall(options) ==
    /\ exist_pc = "checked"
    /\ exist_pc' = "check"
    /\ device_options' = options
    /\ exist_result' = FALSE
    /\ UNCHANGED <<devVars, schedVars, mgrVars, rerunVars, actionVars,
                   kitVars, modVars, deccVars, compVars, histVars, confVars,
                   parseVars, ohVars, jsVars, concVars, execVars, xmlVars,
                   sptVars, instVars, envVars>>

ExistNext ==
    \/ CheckDeviceExist
    \/ \E options \in ExistOptionLists : ExistNextCall(options)

ExistSpec == ExistInit /\ [][ExistNext]_vars

\* ------------------------------------------------ Concurrent.concurrent_execute
\* The caller submits one future per params, waits for all of them and
\* collects future.result() in submit order.  A worker returns or raises;
\* executor_callback runs when it is done.
NWorkers == 4
Workers == 1..NWorkers

\* Future.result(): the value the worker returned; the exception the worker
\* raised is raised again in the caller
future_result_swallowed(state) == [raises |-> FALSE, value |-> state]

future_result(state) == [raises |-> state = "raised", value |-> state]

ConcInit ==
    /\ SchedIdle
    /\ EnvIdle
    /\ InstIdle
    /\ SptIdle
    /\ XmlIdle
    /\ ExecIdle
    /\ MgrIdle
    /\ ExistIdle
    /\ JsIdle
    /\ OhIdle
    /\ ParseIdle
    /\ ConfIdle
    /\ HistIdle
    /\ CompIdle
    /\ DeccIdle
    /\ ModIdle
    /\ RerunIdle
    /\ ActionIdle
    /\ KitIdle
    /\ devices_list = <<>>
    /\ device_allocation_state = <<>>
    /\ test_device_state = <<>>
    /\ task_state = <<>>
    /\ device_sn = <<>>
    /\ global_device_filter = <<>>
    /\ cc_pc = "submit"
    /\ cc_index = 0
    /\ worker = [w \in Workers |-> "none"]
    /\ logged = {}
    /\ result_list = <<>>

\* executor.submit(func, *params) and add_done_callback, for the next params
ConcSubmit ==
    /\ cc_pc = "submit"
    /\ IF cc_index < NWorkers
       THEN /\ cc_index' = cc_index + 1
            /\ worker' = [worker EXCEPT ![cc_index + 1] = "running"]
            /\ UNCHANGED cc_pc
       ELSE /\ cc_pc' = "wait"
            /\ UNCHANGED <<cc_index, worker>>
    /\ UNCHANGED <<devVars, schedVars, mgrVars, rerunVars, actionVars,
                   kitVars, modVars, deccVars, compVars, histVars, confVars,
                   parseVars, ohVars, jsVars, existVars, logged, result_list,
                   execVars, xmlVars, sptVars, instVars, envVars>>

\* a worker is done, and executor_callback logs the exception it raised
ConcWorkerDone(w, outcome) ==
    /\ worker[w] = "running"
    /\ worker' = [worker EXCEPT ![w] = outcome]
    /\ logged' = IF outcome = "raised" THEN logged \cup {w} ELSE logged
    /\ UNCHANGED <<devVars, schedVars, mgrVars, rerunVars, actionVars,
                   kitVars, modVars, deccVars, compVars, histVars, confVars,
                   parseVars, ohVars, jsVars, existVars, cc_pc, cc_index,
                   result_list, execVars, xmlVars, sptVars, instVars,
                   envVars>>

\* wait(future_params): every function is complete
ConcWait ==
    /\ cc_pc = "wait"
    /\ \A w \in Workers : worker[w] \in {"returned", "raised"}
    /\ cc_pc' = "collect"
    /\ cc_index' = 0
    /\ UNCHANGED <<devVars, schedVars, mgrVars, rerunVars, actionVars,
                   kitVars, modVars, deccVars, compVars, histVars, confVars,
                   parseVars, ohVars, jsVars, existVars, worker, logged,
                   result_list, execVars, xmlVars, sptVars, instVars,
                   envVars>>

\* result_list.append((future.result(), params)) for the next future, and
\* the return of the list after the last
ConcCollect ==
    /\ cc_pc = "collect"
    /\ IF cc_index < NWorkers
       THEN LET result == future_result(worker[cc_index + 1])
            IN  IF result.raises
                THEN /\ cc_pc' = "raised"
                     /\ UNCHANGED <<cc_index, result_list>>
                ELSE /\ result_list' = Append(result_list, cc_index + 1)
                     /\ cc_index' = cc_index + 1
                     /\ UNCHANGED cc_pc
       ELSE /\ cc_pc' = "returned"
            /\ UNCHANGED <<cc_index, result_list>>
    /\ UNCHANGED <<devVars, schedVars, mgrVars, rerunVars, actionVars,
                   kitVars, modVars, deccVars, compVars, histVars, confVars,
                   parseVars, ohVars, jsVars, existVars, worker, logged,
                   execVars, xmlVars, sptVars, instVars, envVars>>

ConcNext ==
    \/ ConcSubmit
    \/ \E w \in Workers, outcome \in {"returned", "raised"} :
           ConcWorkerDone(w, outcome)
    \/ ConcWait
    \/ ConcCollect

ConcSpec == ConcInit /\ [][ConcNext]_vars

\* ---------------------------------------------------------- Scheduler.exec_command
\* A console that calls exec_command a few times, with any verb and any
\* execution type.
MaxExecCalls == 3

Commands == {"run", "list", "quit", ""}

\* constants.py: TestExecType
TestExecTypes == {"device", "host", "hostdriven"}

ExecTypes == TestExecTypes \cup {"", "other"}

\* Scheduler.exec_command(command, options): what the call does
exec_command_any_verb(command, exectype) ==
    IF exectype \in TestExecTypes
    THEN [raised |-> "", logged |-> FALSE, executed |-> TRUE]
    ELSE [raised |-> "", logged |-> TRUE, executed |-> FALSE]

exec_command(command, exectype) ==
    IF command # "run"
    THEN [raised |-> "ParamError", logged |-> FALSE, executed |-> FALSE]
    ELSE IF exectype \in TestExecTypes
    THEN [raised |-> "", logged |-> FALSE, executed |-> TRUE]
    ELSE [raised |-> "", logged |-> TRUE, executed |-> FALSE]

ExecInit ==
    /\ SchedIdle
    /\ EnvIdle
    /\ InstIdle
    /\ SptIdle
    /\ XmlIdle
    /\ MgrIdle
    /\ ConcIdle
    /\ ExistIdle
    /\ JsIdle
    /\ OhIdle
    /\ ParseIdle
    /\ ConfIdle
    /\ HistIdle
    /\ CompIdle
    /\ DeccIdle
    /\ ModIdle
    /\ RerunIdle
    /\ ActionIdle
    /\ KitIdle
    /\ devices_list = <<>>
    /\ device_allocation_state = <<>>
    /\ test_device_state = <<>>
    /\ task_state = <<>>
    /\ device_sn = <<>>
    /\ global_device_filter = <<>>
    /\ exec_calls = 0
    /\ exec_command_args = <<>>
    /\ exec_outcome = ""
    /\ exec_log = 0
    /\ exec_tasks = 0

\* one call of exec_command, up to its return or its exception
ExecCommand(command, exectype) ==
    /\ exec_calls < MaxExecCalls
    /\ exec_calls' = exec_calls + 1
    /\ exec_command_args' = <<command, exectype>>
    /\ LET done == exec_command(command, exectype)
       IN  /\ exec_outcome' = IF done.raised # "" THEN done.raised
                              ELSE "returned"
           /\ exec_log' = exec_log + (IF done.logged THEN 1 ELSE 0)
           /\ exec_tasks' = exec_tasks + (IF done.executed THEN 1 ELSE 0)
    /\ UNCHANGED <<devVars, schedVars, mgrVars, rerunVars, actionVars,
                   kitVars, modVars, deccVars, compVars, histVars, confVars,
                   parseVars, ohVars, jsVars, existVars, concVars, xmlVars,
                   sptVars, instVars, envVars>>

ExecNext ==
    \E command \in Commands, exectype \in ExecTypes :
        ExecCommand(command, exectype)

ExecSpec == ExecInit /\ [][ExecNext]_vars

\* ------------------------------------------------- _create_empty_result_file
\* The message attribute of the empty result file, character by
\* character, and its reading by an XML parser.
MaxMessageLen == 3

MessageChars == {"\"", "<", ">", "&", "a"}

Messages ==
    UNION {[1..n -> MessageChars] : n \in 0..MaxMessageLen}

\* str.replace(old, new) for a one-character old
RECURSIVE str_replace(_, _, _)
str_replace(str, old, new) ==
    IF str = <<>> THEN <<>>
    ELSE (IF Head(str) = old THEN new ELSE <<Head(str)>>)
         \o str_replace(Tail(str), old, new)

Quot == <<"&", "q", "u", "o", "t", ";">>
Lt == <<"&", "l", "t", ";">>
Gt == <<"&", "g", "t", ";">>
Amp == <<"&", "a", "m", "p", ";">>

\* the four replace calls of _create_empty_result_file, in their order
escape_amp_first(message) ==
    str_replace(str_replace(str_replace(str_replace(
        message, "&", Amp), "\"", Quot), "<", Lt), ">", Gt)

escape(message) ==
    str_replace(str_replace(str_replace(str_replace(
        message, "\"", Quot), "<", Lt), ">", Gt), "&", Amp)

starts_with(str, prefix) ==
    /\ Len(str) >= Len(prefix)
    /\ SubSeq(str, 1, Len(prefix)) = prefix

\* an XML parser reading an attribute value: each entity reference is
\* replaced once, left to right
RECURSIVE unescape(_)
unescape(str) ==
    IF str = <<>> THEN <<>>
    ELSE IF starts_with(str, Quot)
    THEN <<"\"">> \o unescape(SubSeq(str, Len(Quot) + 1, Len(str)))
    ELSE IF starts_with(str, Lt)
    THEN <<"<">> \o unescape(SubSeq(str, Len(Lt) + 1, Len(str)))
    ELSE IF starts_with(str, Gt)
    THEN <<">">> \o unescape(SubSeq(str, Len(Gt) + 1, Len(str)))
    ELSE IF starts_with(str, Amp)
    THEN <<"&">> \o unescape(SubSeq(str, Len(Amp) + 1, Len(str)))
    ELSE <<Head(str)>> \o unescape(Tail(str))

XmlInit ==
    /\ SchedIdle
    /\ EnvIdle
    /\ InstIdle
    /\ SptIdle
    /\ MgrIdle
    /\ ExecIdle
    /\ ConcIdle
    /\ ExistIdle
    /\ JsIdle
    /\ OhIdle
    /\ ParseIdle
    /\ ConfIdle
    /\ HistIdle
    /\ CompIdle
    /\ DeccIdle
    /\ ModIdle
    /\ RerunIdle
    /\ ActionIdle
    /\ KitIdle
    /\ devices_list = <<>>
    /\ device_allocation_state = <<>>
    /\ test_device_state = <<>>
    /\ task_state = <<>>
    /\ device_sn = <<>>
    /\ global_device_filter = <<>>
    /\ xml_pc = "create"
    /\ error_message \in Messages
    /\ message_attr = <<>>
    /\ parsed_message = <<>>

\* _create_empty_result_file(filepath, filename, error_message), for a
\* file that does not exist yet
CreateEmptyResultFile ==
    /\ xml_pc = "create"
    /\ xml_pc' = "written"
    /\ message_attr' = escape(error_message)
    /\ UNCHANGED <<devVars, schedVars, mgrVars, rerunVars, actionVars,
                   kitVars, modVars, deccVars, compVars, histVars, confVars,
                   parseVars, ohVars, jsVars, existVars, concVars, execVars,
                   error_message, parsed_message, sptVars, instVars, envVars>>

\* the report is read back by an XML parser
XmlParseAttribute ==
    /\ xml_pc = "written"
    /\ xml_pc' = "parsed"
    /\ parsed_message' = unescape(message_attr)
    /\ UNCHANGED <<devVars, schedVars, mgrVars, rerunVars, actionVars,
                   kitVars, modVars, deccVars, compVars, histVars, confVars,
                   parseVars, ohVars, jsVars, existVars, concVars, execVars,
                   error_message, message_attr, sptVars, instVars, envVars>>

XmlNext ==
    \/ CreateEmptyResultFile
    \/ XmlParseAttribute

XmlSpec == XmlInit /\ [][XmlNext]_vars

\* ---------------------------------------------------- Scheduler.compare_spt_time
\* A patch level is the text "<prefix><year>-<month>[-<day>]", kept as its
\* parts; NoSpt is the empty value.  strptime("%Y-%m") accepts the first
\* two parts when the year is digits only and the month is 1..12.
SptYears == {2023, 2024, 2025}

SptMonths == 0..13

NoSpt == [prefix |-> "", year |-> 0, month |-> 0]

Spt(prefix, year, month) == [prefix |-> prefix, year |-> year, month |-> month]

SptValues ==
    {NoSpt} \cup {Spt(p, y, m) : p \in {"", "X_"}, y \in SptYears,
                                 m \in SptMonths}

\* datetime.datetime.strptime("-".join(parts[:2]), "%Y-%m") raises
\* ValueError
strptime_raises(spt) == spt.prefix # "" \/ spt.month \notin 1..12

\* Scheduler.compare_spt_time(kit_spt, device_spt): "True", "False", or
\* "None" when the end of the function is reached
compare_spt_time_wide(kit, device) ==
    IF kit = NoSpt \/ device = NoSpt THEN "False"
    ELSE IF strptime_raises(kit) \/ strptime_raises(device) THEN "False"
    ELSE LET month_interval == kit.month - device.month
             year_interval == kit.year - device.year
         IN  IF year_interval < 0 THEN "True"
             ELSE IF year_interval = 0 /\ month_interval \in -11..3
             THEN "True"
             ELSE IF year_interval = 1 /\ month_interval + 12 \in {1, 2}
             THEN "True"
             ELSE "None"

compare_spt_time(kit, device) ==
    IF kit = NoSpt \/ device = NoSpt THEN "False"
    ELSE IF strptime_raises(kit) \/ strptime_raises(device) THEN "False"
    ELSE LET month_interval == kit.month - device.month
             year_interval == kit.year - device.year
         IN  IF year_interval < 0 THEN "True"
             ELSE IF year_interval = 0 /\ month_interval \in -11..2
             THEN "True"
             ELSE IF year_interval = 1 /\ month_interval + 12 \in {1, 2}
             THEN "True"
             ELSE "None"

SptInit ==
    /\ SchedIdle
    /\ EnvIdle
    /\ InstIdle
    /\ MgrIdle
    /\ XmlIdle
    /\ ExecIdle
    /\ ConcIdle
    /\ ExistIdle
    /\ JsIdle
    /\ OhIdle
    /\ ParseIdle
    /\ ConfIdle
    /\ HistIdle
    /\ CompIdle
    /\ DeccIdle
    /\ ModIdle
    /\ RerunIdle
    /\ ActionIdle
    /\ KitIdle
    /\ devices_list = <<>>
    /\ device_allocation_state = <<>>
    /\ test_device_state = <<>>
    /\ task_state = <<>>
    /\ device_sn = <<>>
    /\ global_device_filter = <<>>
    /\ spt_pc = "compare"
    /\ kit_spt \in SptValues
    /\ device_spt \in SptValues
    /\ spt_result = ""

\* _check_device_spt: the call of compare_spt_time
CompareSptTime ==
    /\ spt_pc = "compare"
    /\ spt_pc' = "compared"
    /\ spt_result' = compare_spt_time(kit_spt, device_spt)
    /\ UNCHANGED <<devVars, schedVars, mgrVars, rerunVars, actionVars,
                   kitVars, modVars, deccVars, compVars, histVars, confVars,
                   parseVars, ohVars, jsVars, existVars, concVars, execVars,
                   xmlVars, kit_spt, device_spt, instVars, envVars>>

\* the next kit and device
SptNextCall(kit, device) ==
    /\ spt_pc = "compared"
    /\ spt_pc' = "compare"
    /\ kit_spt' = kit
    /\ device_spt' = device
    /\ spt_result' = ""
    /\ UNCHANGED <<devVars, schedVars, mgrVars, rerunVars, actionVars,
                   kitVars, modVars, deccVars, compVars, histVars, confVars,
                   parseVars, ohVars, jsVars, existVars, concVars, execVars,
                   xmlVars, instVars, envVars>>

SptNext ==
    \/ CompareSptTime
    \/ \E kit \in {Spt("", 2024, 3)}, device \in {Spt("", 2024, 1)} :
           SptNextCall(kit, device)

SptSpec == SptInit /\ [][SptNext]_vars

\* ------------------------------------------- AppInstallKit.retry_install_hap
NHaps == 2

MAX_WAIT_COUNT == 4

\* what "bm install" prints
InstallOutputs == {"Success", "Failure", "[ERROR_GET_BUNDLE_INSTALLER_FAILED]", ""}

\* range(1, MAX_WAIT_COUNT + 1)
retry_range_inclusive == 1..MAX_WAIT_COUNT

\* range(1, MAX_WAIT_COUNT)
retry_range == 1..(MAX_WAIT_COUNT - 1)

InstInit ==
    /\ SchedIdle
    /\ EnvIdle
    /\ MgrIdle
    /\ SptIdle
    /\ XmlIdle
    /\ ExecIdle
    /\ ConcIdle
    /\ ExistIdle
    /\ JsIdle
    /\ OhIdle
    /\ ParseIdle
    /\ ConfIdle
    /\ HistIdle
    /\ CompIdle
    /\ DeccIdle
    /\ ModIdle
    /\ RerunIdle
    /\ ActionIdle
    /\ KitIdle
    /\ devices_list = <<>>
    /\ device_allocation_state = <<>>
    /\ test_device_state = <<>>
    /\ task_state = <<>>
    /\ device_sn = <<>>
    /\ global_device_filter = <<>>
    /\ inst_pc = "install"
    /\ hap_index = 1
    /\ wait_count = 0
    /\ sleeps = <<>>
    /\ exec_outs = <<>>

\* install_hap: device.execute_shell_command("bm install -p ...") and the
\* test of its output
InstallHap(output) ==
    /\ inst_pc = "install"
    /\ inst_pc' = IF output = "Success" THEN "done"
                  ELSE IF output = "[ERROR_GET_BUNDLE_INSTALLER_FAILED]"
                  THEN "retry"
                  ELSE "raised"
    /\ wait_count' = IF output = "[ERROR_GET_BUNDLE_INSTALLER_FAILED]"
                     THEN Min(retry_range) ELSE wait_count
    /\ sleeps' = <<>>
    /\ exec_outs' = <<>>
    /\ UNCHANGED <<devVars, schedVars, mgrVars, rerunVars, actionVars,
                   kitVars, modVars, deccVars, compVars, histVars, confVars,
                   parseVars, ohVars, jsVars, existVars, concVars, execVars,
                   xmlVars, sptVars, hap_index, envVars>>

\* retry_install_hap: one pass of the for loop
RetryInstallHap(exec_out) ==
    /\ inst_pc = "retry"
    /\ wait_count \in retry_range
    /\ sleeps' = Append(sleeps, wait_count * 10)
    /\ exec_outs' = Append(exec_outs, exec_out)
    /\ IF exec_out = "Success"
       THEN inst_pc' = "after_loop" /\ wait_count' = wait_count
       ELSE IF wait_count + 1 \in retry_range
       THEN inst_pc' = "retry" /\ wait_count' = wait_count + 1
       ELSE inst_pc' = "after_loop" /\ wait_count' = wait_count
    /\ UNCHANGED <<devVars, schedVars, mgrVars, rerunVars, actionVars,
                   kitVars, modVars, deccVars, compVars, histVars, confVars,
                   parseVars, ohVars, jsVars, existVars, concVars, execVars,
                   xmlVars, sptVars, hap_index, envVars>>

\* retry_install_hap returns exec_out; install_hap raises AppInstallError
\* unless it starts with "Success"
RetryReturn ==
    /\ inst_pc = "after_loop"
    /\ inst_pc' = IF exec_outs[Len(exec_outs)] = "Success" THEN "done"
                  ELSE "raised"
    /\ UNCHANGED <<devVars, schedVars, mgrVars, rerunVars, actionVars,
                   kitVars, modVars, deccVars, compVars, histVars, confVars,
                   parseVars, ohVars, jsVars, existVars, concVars, execVars,
                   xmlVars, sptVars, hap_index, wait_count, sleeps, exec_outs,
                   envVars>>

\* __setup__: the next hap file of the kit
InstallNextHap ==
    /\ inst_pc = "done"
    /\ hap_index < NHaps
    /\ hap_index' = hap_index + 1
    /\ inst_pc' = "install"
    /\ wait_count' = 0
    /\ UNCHANGED <<devVars, schedVars, mgrVars, rerunVars, actionVars,
                   kitVars, modVars, deccVars, compVars, histVars, confVars,
                   parseVars, ohVars, jsVars, existVars, concVars, execVars,
                   xmlVars, sptVars, sleeps, exec_outs, envVars>>

InstNext ==
    \/ \E output \in InstallOutputs : InstallHap(output)
    \/ \E exec_out \in InstallOutputs : RetryInstallHap(exec_out)
    \/ RetryReturn
    \/ InstallNextHap

InstSpec == InstInit /\ [][InstNext]_vars

\* ------------------------------------------------ ManagerDevice, scheduling
\* A process inside a ManagerDevice call
InCall(p) == pc[p] \notin {"idle", "holding"}

\* one step of a process inside a call
CallStep(p) ==
    \/ HandleRead(p) \/ HandleWrite(p) \/ HandleNotify(p) \/ HandleRemove(p)
    \/ (p \in Appliers /\ ScanMatch(p))
    \/ (p \in Appliers /\ ScanTimeout(p))
    \/ (p \in Appliers /\ WaitWake(p))
    \/ (p \in Appliers /\ ReleaseAcquire(p))

\* Every thread keeps running, and a lock that becomes free again and
\* again is eventually given to a thread that waits for it; the timed
\* list_con.acquire(timeout=5) either succeeds or times out.
DevFair == \A p \in Procs : SF_vars(CallStep(p))

\* one device comes and goes, and the appliers ask for it
DevLiveInit == DevInit /\ global_device_filter = <<>>

DevLiveNext ==
    \/ DeviceConnected(1, "ONLINE")
    \/ DeviceChanged(1, "NOT_AVAILABLE")
    \/ DeviceDisconnected(1)
    \/ \E p \in Procs : HandleRead(p)
    \/ \E p \in Procs : HandleWrite(p)
    \/ \E p \in Procs : HandleNotify(p)
    \/ \E p \in Procs : HandleRemove(p)
    \/ \E p \in Appliers, option \in DevOptions :
           ApplyBegin(p, option, apply_device_timeout)
    \/ \E p \in Appliers : ScanMatch(p)
    \/ \E p \in Appliers : ScanTimeout(p)
    \/ \E p \in Appliers : WaitWake(p)
    \/ \E p \in Appliers : ReleaseBegin(p)
    \/ \E p \in Appliers : ReleaseAcquire(p)

DevLiveSpec == DevLiveInit /\ [][DevLiveNext]_vars /\ DevFair

\* ----------------------------------------- EnvironmentManager.apply_environment
\* Environment.device_mapper.get(device.label, "DUT")
device_mapper(l) == IF l = "phone" THEN "Phone" ELSE "DUT"

IdLabels == {"Phone", "DUT"}

\* the device options of the job
EnvOptions == <<Option("phone"), Option("phone")>>

\* the sn lists of the user configuration
EnvFilters ==
    {f \in UNION {[1..n -> Serials] : n \in 0..NSerials} :
        \A i, j \in DOMAIN f : i # j => f[i] # f[j]}

\* EnvironmentManager.get_config_device_index(device): the 1-based
\* position of the serial in global_device_filter, 0 for None
get_config_device_index(d) ==
    LET hits == {i \in DOMAIN global_device_filter :
                    global_device_filter[i] = device_sn[d]}
    IN  IF hits = {} THEN 0 ELSE Min(hits)

\* Environment.add_device: "current", the number of the new id; and a
\* variant that never goes back below the counter of the label
add_device_current_above_recorder(recorder, l, index) ==
    IF index # 0 /\ index > recorder[l] THEN index ELSE recorder[l] + 1

add_device_current(recorder, l, index) ==
    IF index # 0 THEN index ELSE recorder[l] + 1

EnvInit ==
    /\ SchedIdle
    /\ MgrIdle
    /\ InstIdle
    /\ SptIdle
    /\ XmlIdle
    /\ ExecIdle
    /\ ConcIdle
    /\ ExistIdle
    /\ JsIdle
    /\ OhIdle
    /\ ParseIdle
    /\ ConfIdle
    /\ HistIdle
    /\ CompIdle
    /\ DeccIdle
    /\ ModIdle
    /\ RerunIdle
    /\ ActionIdle
    /\ KitIdle
    /\ devices_list = <<>>
    /\ device_allocation_state = [d \in Instances |-> "available"]
    /\ test_device_state = [d \in Instances |-> "NOT_AVAILABLE"]
    /\ task_state = [d \in Instances |-> TRUE]
    /\ device_sn = [d \in Instances |-> 0]
    /\ global_device_filter \in EnvFilters
    /\ env_devices = <<>>
    /\ device_id = [d \in Instances |-> <<>>]
    /\ device_recorder = [l \in IdLabels |-> 0]
    /\ env_opt = 0
    /\ env_found = 0

\* ManagedDeviceListener.device_connected: find_or_create appends a new
\* Device, whose device_allocation_state is available, to devices_list
EnvFindOrCreate(sn) ==
    /\ env_found = 0
    /\ find_device(sn) = 0
    /\ \E d \in {Min({i \in DOMAIN device_sn : device_sn[i] = 0})} :
           /\ device_sn' = [device_sn EXCEPT ![d] = sn]
           /\ devices_list' = append_device_by_sort(devices_list, d,
                                                    device_sn')
           /\ test_device_state' = [test_device_state EXCEPT ![d] = "ONLINE"]
           /\ env_found' = d
    /\ UNCHANGED <<schedVars, mgrVars, rerunVars, actionVars, kitVars,
                   modVars, deccVars, compVars, histVars, confVars,
                   parseVars, ohVars, jsVars, existVars, concVars, execVars,
                   xmlVars, sptVars, instVars, device_allocation_state,
                   task_state, global_device_filter, env_devices, device_id,
                   device_recorder, env_opt>>

\* device_connected: handle_device_event(test_device, CONNECTED_ONLINE)
EnvHandleDeviceEvent ==
    /\ env_found # 0
    /\ device_allocation_state' =
           [device_allocation_state EXCEPT ![env_found] =
               new_allocation_state(device_sn[env_found], @,
                                    "CONNECTED_ONLINE")]
    /\ env_found' = 0
    /\ UNCHANGED <<schedVars, mgrVars, rerunVars, actionVars, kitVars,
                   modVars, deccVars, compVars, histVars, confVars,
                   parseVars, ohVars, jsVars, existVars, concVars, execVars,
                   xmlVars, sptVars, instVars, devices_list,
                   test_device_state, task_state, device_sn,
                   global_device_filter, env_devices, device_id,
                   device_recorder, env_opt>>

\* apply_environment: one device option. apply_device allocates the first
\* matching device; get_config_device_index and Environment.add_device
\* give it its device_id. With no device the option is passed over.
EnvApplyOption ==
    /\ env_opt < Len(EnvOptions)
    /\ env_opt' = env_opt + 1
    /\ LET device == allocate_device_option(EnvOptions[env_opt + 1],
                                            device_allocation_state)
           index == get_config_device_index(device)
           l == device_mapper(label(device))
           current == add_device_current(device_recorder, l, index)
       IN  IF device # 0
           THEN /\ device_allocation_state' =
                       [device_allocation_state EXCEPT ![device] =
                           new_allocation_state(device_sn[device], @,
                                                "ALLOCATE_REQUEST")]
                /\ device_id' = [device_id EXCEPT ![device] = <<l, current>>]
                /\ device_recorder' = [device_recorder EXCEPT ![l] = current]
                /\ env_devices' = Append(env_devices, device)
           ELSE UNCHANGED <<device_allocation_state, device_id,
                            device_recorder, env_devices>>
    /\ UNCHANGED <<schedVars, mgrVars, rerunVars, actionVars, kitVars,
                   modVars, deccVars, compVars, histVars, confVars,
                   parseVars, ohVars, jsVars, existVars, concVars, execVars,
                   xmlVars, sptVars, instVars, devices_list,
                   test_device_state, task_state, device_sn,
                   global_device_filter, env_found>>

EnvNext ==
    \/ \E sn \in Serials : EnvFindOrCreate(sn)
    \/ EnvHandleDeviceEvent
    \/ EnvApplyOption

EnvSpec == EnvInit /\ [][EnvNext]_vars

\* ------------------------------------------------- properties of SchedSpec
\* threads that are between start() and the end of _handle_finally's
\* __free_environment__ call
HoldingPcs == {"gate", "prepare", "execute", "finally"}
LeftRunPcs == {"ended", "died"}

\* 'terminate success' items put so far: those queued and the one taken.
TerminatePuts == terminate_result + (IF term_pc = "returned" THEN 1 ELSE 0)

\* C2: every environment handed to a DriversThread is released: a device in
\* the allocated state is held by the dispatcher, which is allocating for
\* the head job, or by a thread that is still running.
C2_EnvironmentReleased ==
    \A d \in Devices :
        device_allocation_state[d] = "allocated" =>
            \/ /\ sched_pc \in {"apply", "applied", "post"}
               /\ d \in Range(environment.devices)
            \/ \E j \in Jobs : th_pc[j] \in HoldingPcs /\ d \in Range(th_env[j])

\* C3: every started DriversThread puts exactly one ExecuteMessage before
\* it ends: the step by which a thread leaves run() is the step that puts
\* its message on the queue.
C3_OneMessagePerThread ==
    [][\A j \in Jobs :
          (th_pc[j] \notin LeftRunPcs /\ th_pc'[j] \in LeftRunPcs)
              => message_queue' = Append(message_queue, j)]_vars

\* C5: once is_execute is cleared, no driver's __execute__ begins for a job
\* that had not already begun executing.
C5_NoExecuteAfterClear ==
    [][~is_execute =>
          \A j \in Jobs : th_pc'[j] = "execute" => th_pc[j] = "execute"]_vars

\* C6: a call of terminate_cmd_exec returns: while the caller is blocked
\* on terminate_result, the scheduler, a driver thread, the monitor or the
\* caller itself can still take a step.
C6_TerminateReturns ==
    term_pc = "waiting" => ENABLED SchedProgress

\* C7: for a run during which is_execute is cleared, the monitor puts
\* 'terminate success' exactly once, and only when no job is pending and
\* no driver thread is in flight.
C7_TerminateSuccessOnce ==
    /\ TerminatePuts > 0 =>
          /\ test_drivers = <<>>
          /\ \A j \in Jobs : th_pc[j] \in {"none", "ended"}
    /\ TerminatePuts <= 1
    /\ (term_pc # "idle" /\ ~ENABLED SchedProgress) => TerminatePuts = 1

\* C8, as stated: __allocate_environment__ returns only an environment
\* that holds one device per requested option.
C8_OnlyFullEnvironment ==
    sched_pc = "post" =>
        /\ ~environment.none
        /\ Len(environment.devices) = Len(job_options[Head(test_drivers)])

\* C8, amended: __allocate_environment__ returns an environment with one
\* allocated device per option or, once is_execute is cleared, None or an
\* environment whose devices were all released; and outside an allocation
\* attempt the dispatcher keeps no device: the devices of its last
\* environment are released or were handed to a driver thread.
C8_FullOrTerminated ==
    /\ sched_pc = "post" =>
          \/ /\ ~environment.none
             /\ Len(environment.devices) =
                    Len(job_options[Head(test_drivers)])
             /\ \A d \in Range(environment.devices) :
                    device_allocation_state[d] = "allocated"
          \/ /\ ~is_execute
             /\ \A d \in Range(environment.devices) :
                    device_allocation_state[d] = "available"
    /\ sched_pc \in {"loop", "alloc", "wait", "done"} =>
          \A d \in Range(environment.devices) :
              device_allocation_state[d] = "allocated" =>
                  \E j \in Jobs : th_pc[j] \in HoldingPcs \cup {"died"}
                                  /\ d \in Range(th_env[j])

\* C8 witness: a partially filled environment was released and the
\* dispatcher is about to try again.
C8_PartialReleased ==
    /\ sched_pc = "alloc"
    /\ is_execute
    /\ environment.devices # <<>>
    /\ Len(environment.devices) < Len(job_options[Head(test_drivers)])
    /\ \A d \in Range(environment.devices) :
           device_allocation_state[d] = "available"

\* the step of __allocate_environment__ that raises DeviceError
DeviceErrorStep ==
    /\ sched_pc = "applied"
    /\ Len(environment.devices) # Len(job_options[Head(test_drivers)])
    /\ ~check_device_exist(
           job_options[Head(test_drivers)],
           release_environment(device_allocation_state, environment.devices),
           {})
    /\ sched_pc' # "applied"

\* C9: when allocation for the head job raises DeviceError, exactly that
\* job is removed and reported as not executed, the jobs behind it stay
\* queued in order and the dispatch loop goes on with them.
C9_DeviceErrorDropsHead ==
    [][DeviceErrorStep =>
          /\ test_drivers' = Tail(test_drivers)
          /\ report'[Head(test_drivers)] = DeviceErrorMessage
          /\ \A j \in Jobs \ {Head(test_drivers)} : report'[j] = report[j]
          /\ sched_pc' = "loop"]_vars

\* C9 witness: a job was reported for DeviceError and a job behind it was
\* dispatched to a driver thread.
C9_LaterJobDispatched ==
    \E j, k \in Jobs :
        /\ j < k
        /\ report[j] = DeviceErrorMessage
        /\ th_pc[k] # "none"

\* the step of the dispatch loop that runs _clear_not_executed on a queue
\* that still holds jobs
ClearStep ==
    /\ sched_pc = "loop"
    /\ test_drivers # <<>>
    /\ ~is_execute
    /\ sched_pc' = "wait"

\* C10, as stated: on termination every job still queued ends up with a
\* not-executed report entry carrying a message.
C10_DrainedJobsReported ==
    [][ClearStep => \A j \in Range(test_drivers) : report'[j] # ""]_vars

\* C10, amended: on termination the queue is cleared; in decc mode every
\* job still queued gets a report entry with the Execute Terminate[00300]
\* message, in every other mode the jobs are dropped without a report.
C10_DrainedReportedInDecc ==
    [][ClearStep =>
          /\ test_drivers' = <<>>
          /\ IF mode = "decc"
             THEN \A j \in Range(test_drivers) : report'[j] = TerminateMessage
             ELSE report' = report]_vars

\* C10 witness: in decc mode, two queued jobs were drained on termination.
C10_TerminateReported ==
    /\ mode = "decc"
    /\ test_drivers = <<>>
    /\ \E j, k \in Jobs : /\ j # k
                          /\ report[j] = TerminateMessage
                          /\ report[k] = TerminateMessage

\* C18: driver threads are started in the list order of task.test_drivers:
\* the job whose thread is started is the head of the list, and every job
\* ahead of it has been started or reported as not executed.
C18_StartedInListOrder ==
    [][\A j \in DOMAIN th_pc :
          (th_pc[j] = "none" /\ th_pc'[j] # "none") =>
              /\ test_drivers # <<>>
              /\ j = Head(test_drivers)
              /\ \A i \in DOMAIN th_pc :
                     i < j => (th_pc[i] # "none" \/ report[i] # "")]_vars

\* C18 witness: the second job of the list was started while the thread
\* of the first one is still running.
C18_SecondStartedAfterFirst ==
    /\ th_pc[1] \in HoldingPcs
    /\ th_pc[2] = "gate"
    /\ test_drivers = <<>>

\* --------------------------------------------------- properties of KitSpec
\* C20: within one task every task kit is set up at most once on a device,
\* by the first job that uses the device, and exactly once when a job has
\* finished _do_task_setup on it (until task teardown).
C20_KitSetupOncePerDevice ==
    \A d \in DOMAIN kit_setups : \A k \in DOMAIN kit_setups[d] :
        /\ kit_setups[d][k] <= 1
        /\ (is_execute /\ sched_pc # "done" /\ ~need_kit_setup[d])
               => kit_setups[d][k] = 1

\* -------------------------------------------------- properties of HostSpec
\* C19: during host-test execution at most 5 driver threads are in flight
\* at the same time.
C19_AtMostFiveInFlight ==
    Cardinality({j \in HostJobs : th_pc[j] \in InFlightPcs})
        <= host_thread_limit

\* --------------------------------------------------- properties of DevSpec
\* C1: under any interleaving of apply_device, release_device and device
\* events, a Device has at most one outstanding allocation: no two callers
\* hold the same device.
C1_OneOutstandingAllocation ==
    \A p, q \in Appliers :
        (p # q /\ held[p] # 0) => held[p] # held[q]

\* C1 witness: a caller holds a device while a second caller, whose option
\* fits that device, has scanned the list, was refused and waits on
\* lock_con, and the listener is in the middle of an event for the device.
C1_SecondCallerRefused ==
    \E p, q \in Appliers :
        /\ p # q
        /\ held[p] # 0
        /\ pc[q] = "waiting"
        /\ held[p] \in Range(devices_list)
        /\ matches_loose(p_opt[q], held[p], device_allocation_state, TRUE)
        /\ pc[Listener] = "hde_write"
        /\ p_dev[Listener] = held[p]

\* the step of handle_device_event, made by caller p, that follows the
\* computation of new_state
WriteStep(p) == pc[p] = "hde_write" /\ pc'[p] # "hde_write"

AllocateReturnStep(p) ==
    /\ pc[p] = "hde_remove"
    /\ p_ret[p] = "allocate"
    /\ pc'[p] = "holding"

\* C12: a device that allocate_device_option matched is in state allocated
\* when the call returns it, and the release of an allocated device whose
\* test state is ONLINE (FREE_AVAILABLE) writes state available.
C12_AllocatedOnReturn ==
    [][\A p \in Appliers :
          /\ AllocateReturnStep(p) =>
                 device_allocation_state'[held'[p]] = "allocated"
          /\ (WriteStep(p) /\ p_event[p] = "FREE_AVAILABLE"
                           /\ p_old[p] = "allocated") =>
                 device_allocation_state'[p_dev[p]] = "available"]_vars

\* C16: an apply_device call whose first scan finds no device adds 2 to
\* wait_times, waits on lock_con for at most min(timeout, wait_times * 2),
\* scans once more and returns the result of that scan, a device or None;
\* there is no third scan and no second wait.
C16_OneBoundedWait ==
    [][\A p \in Appliers :
          /\ (pc[p] = "scan1" /\ pc'[p] # "scan1") =>
                 \/ pc'[p] = "hde_read" /\ p_ret'[p] = "allocate"
                 \/ /\ pc'[p] = "waiting"
                    /\ wait_times' = wait_times + 2
                    /\ lock_wait'[p] = Min({p_timeout[p], wait_times' * 2})
          /\ (pc[p] = "waiting" /\ pc'[p] # "waiting") => pc'[p] = "scan2"
          /\ (pc[p] = "scan2" /\ pc'[p] # "scan2") =>
                 /\ wait_times' = wait_times
                 /\ \/ pc'[p] = "hde_read" /\ p_ret'[p] = "allocate"
                    \/ pc'[p] = "idle" /\ held'[p] = 0]_vars

\* C16 witness: a caller found no device, wait_times * 2 is larger than
\* its timeout and it waits for the timeout.
C16_WaitsForTimeout ==
    \E p \in Appliers :
        /\ pc[p] = "waiting"
        /\ p_timeout[p] < wait_times * 2
        /\ lock_wait[p] = p_timeout[p]

\* -------------------------------------------------- properties of SortSpec
\* the serials of devices_list, in list order
listed_serials == [i \in DOMAIN devices_list |-> device_sn[devices_list[i]]]

\* C17: with a non-empty filter, whatever the arrival order, devices_list
\* holds the devices named in the filter first, in the order of the
\* filter, and the devices outside the filter after them.
C17_FilterOrder ==
    \A i, j \in DOMAIN listed_serials :
        i < j =>
            IF listed_serials[j] \in Range(global_device_filter)
            THEN /\ listed_serials[i] \in Range(global_device_filter)
                 /\ filter_index(listed_serials[i])
                        < filter_index(listed_serials[j])
            ELSE TRUE

\* C17 witness: filter [B, A, C] = <<2, 1, 3>>; the devices arrived in the
\* order A, C, B, D (instances are numbered as they arrive) and the list
\* is B, A, C, D.
C17_ExampleOrder ==
    /\ global_device_filter = <<2, 1, 3>>
    /\ device_sn = <<1, 3, 2, 4>>
    /\ listed_serials = <<2, 1, 3, 4>>

\* ------------------------------------------------ properties of ActionSpec
\* C13: once a failed recovery has set a device's recover_state to false,
\* apply_device does not hand that device out until recover_state is
\* reset: every device handed to a job has recover_state true.
C13_FailedDeviceSkipped ==
    [][(act_dev = 0 /\ act_dev' # 0) => recover_state[act_dev']]_vars

\* the attempt budget of the device_action call in progress
Max(a, b) == IF a >= b THEN a ELSE b
attempt_budget == Max(requested_retry(da_kwargs), 0) + 1

\* a step of the for loop whose call of func raised an exception that
\* starts a device recovery
RecoveryStep ==
    /\ da_pc = "loop"
    /\ invocations' = invocations + 1
    /\ da_pc' # "returned"
    /\ da_exception' \in RecoveryErrors

\* C14: when a decorated action raises HdcError, ConnectionResetError or
\* ConnectionRefusedError and the recovery fails, recover_state becomes
\* false and the error is raised at once, with no further call of the
\* action; when the recovery succeeds, recover_state stays as it is and the
\* action is called again while the attempt budget lasts.
C14_RecoveryFailureRaises ==
    [][/\ RecoveryStep =>
              IF da_recover' = "failed"
              THEN /\ ~recover_state'[act_dev]
                   /\ da_pc' = "raised"
              ELSE /\ da_recover' = "success"
                   /\ recover_state' = recover_state
                   /\ da_pc' = IF invocations' < attempt_budget
                               THEN "loop" ELSE "raised"
       /\ da_pc = "raised" => invocations' \in {invocations, 0}
       /\ da_pc' = "loop" => invocations' < attempt_budget']_vars

\* C14 witness: the first call raised, the recovery succeeded and the
\* action was called again; the second call raised, the recovery failed
\* and the error went to the caller with one attempt of three unused.
C14_RaisedAfterFailedRecovery ==
    /\ da_pc = "raised"
    /\ da_recover = "failed"
    /\ da_exception = "HdcError"
    /\ ~recover_state[act_dev]
    /\ invocations = 2
    /\ attempt_budget = 3

\* a device_action call is over and no call of func returned normally
ActionFailed ==
    /\ da_pc \in {"returned", "raised"}
    /\ ~(da_pc = "returned" /\ invocations > 0)

\* C15, as stated: an action that fails on every attempt, with exceptions
\* that start no recovery, is called max(retry, 0) + 1 times without
\* abort_on_exception and once with it, and the last exception then goes
\* to the caller.
C15_InvokedBudgetTimes ==
    (ActionFailed /\ da_recover = "none") =>
        /\ da_pc = "raised"
        /\ da_exception # ""
        /\ invocations = IF da_kwargs.abort_on_exception THEN 1
                         ELSE attempt_budget

\* C15, amended: on a device whose recover_state is true the action is
\* called max(retry, 0) + 1 times, or once with abort_on_exception, and the
\* last exception goes to the caller; on a device whose recover_state is
\* false device_action returns None without calling the action at all.
C15_BudgetUnlessRecoverStateFalse ==
    [][/\ (da_pc = "idle" /\ da_pc' # "idle") =>
              IF recover_state[act_dev]
              THEN da_pc' = IF da_kwargs'.abort_on_exception THEN "once"
                            ELSE "loop"
              ELSE da_pc' = "returned" /\ invocations' = 0
       /\ (da_pc \in {"once", "loop"} /\ ActionFailed' /\ da_recover' = "none")
              => /\ da_pc' = "raised"
                 /\ da_exception' # ""
                 /\ invocations' = IF da_kwargs'.abort_on_exception THEN 1
                                   ELSE attempt_budget']_vars

\* C15 witness: with the default retry the action was called three times,
\* each call raised an exception that starts no recovery, and the last
\* one went to the caller.
C15_ThreeCallsThenRaised ==
    /\ da_pc = "raised"
    /\ ~da_kwargs.retry_given
    /\ ~da_kwargs.abort_on_exception
    /\ da_recover = "none"
    /\ da_exception = "Exception"
    /\ invocations = 3

\* ------------------------------------------------- properties of RerunSpec
RECURSIVE count_results(_)
count_results(S) ==
    IF S = {} THEN 0
    ELSE case_results[Min(S)] + count_results(S \ {Min(S)})

\* C4: for a non-empty expected test set, when the rerun sequence has
\* ended every expected test has one result, observed or blocked, and the
\* number of case results equals the expected test count.
C4_EveryExpectedTestHasResult ==
    (rr_pc = "done" /\ expected_tests # {}) =>
        /\ \A t \in expected_tests : case_results[t] = 1
        /\ count_results(Tests) = Cardinality(expected_tests)

\* C4 witness: every run reported zero tests, the retry budget is used up
\* and every expected test was marked blocked.
C4_AllBlocked ==
    /\ rr_pc = "done"
    /\ expected_tests = Tests
    /\ blocked = Tests
    /\ rerun_attempt = 0
    /\ \A t \in Tests : case_results[t] = 1

\* --------------------------------------------------- properties of ModSpec
\* C21: when the module has ended, __teardown__ was invoked for every
\* (kit, device) pair __setup__ was invoked with, whatever the outcome of
\* the setups and of the test run.
C21_TeardownForEverySetup ==
    mk_pc = "done" => setup_invoked \subseteq teardown_invoked

\* -------------------------------------------------- properties of DeccSpec
\* the pass of the dispatch loop in which the pre-flight check fails
CheckFailedStep ==
    /\ sched_pc = "check"
    /\ sched_pc' = "loop"
    /\ \E d \in Range(environment.devices) : ~task_state'[d]

\* C22: when the pre-flight check fails the environment is freed and the
\* module gets a load error report; a device that failed the check is not
\* allocated again, and gets its task_state back only in the task teardown.
C22_FailedCheckSetsDeviceAside ==
    [][/\ CheckFailedStep =>
             /\ \A d \in Range(environment.devices) :
                    device_allocation_state'[d] = "available"
             /\ report'[Head(test_drivers)] = LoadErrorMessage
             /\ th_pc'[Head(test_drivers)] = "none"
       /\ \A d \in DOMAIN task_state :
             ~task_state[d] =>
                 /\ device_allocation_state'[d] # "allocated"
                 /\ task_state'[d] => sched_pc' = "done"]_vars

\* C22 witness: a device failed the check, a later job of the task could
\* not get it and was dropped, and the teardown has given it back.
C22_SetAsideThenRestored ==
    /\ sched_pc = "done"
    /\ task_unused_env # {}
    /\ \E j \in DOMAIN report : report[j] = LoadErrorMessage
    /\ \E j \in DOMAIN report : report[j] = "Load Error[00104]"
    /\ \A d \in DOMAIN task_state : task_state[d]

\* -------------------------------------------------- properties of CompSpec
\* the components a device supports: the white list and its cap file for
\* the devices that are asked, nothing for the others
supported_by(d) ==
    IF label(d) \in ComponentLabels
    THEN <<white_list[1], device_components[d] \cup white_list[2]>>
    ELSE <<{}, {}>>

unsupported(j) ==
    \A d \in DOMAIN device_components :
        /\ component_mapper[j][1] \notin supported_by(d)[1]
        /\ component_mapper[j][2] \notin supported_by(d)[2]

\* C23: a module whose subsystem and part no device supports, and that
\* component_task_setup logged as skipped after refreshing the cache, gets
\* no device and its driver thread is never started.
C23_UnsupportedModuleSkipped ==
    \A j \in comp_warned : unsupported(j) => th_pc[j] = "none"

\* -------------------------------------------------- properties of HistSpec
\* a pass of the dispatch loop, for the module at the head of the queue
HistPass == sched_pc = "loop" /\ test_drivers # <<>>
            /\ <<test_drivers, sched_pc>>' # <<test_drivers, sched_pc>>

head_unpassed ==
    unpassed_test_params(unsuccessful_params,
                         module_name[Head(test_drivers)])

\* a module with unsuccessful entries is scheduled as any other module:
\* it gets the free device its option matches, or is dropped by DeviceError
ScheduledNormally ==
    LET j == Head(test_drivers)
    IN  /\ test_drivers' = Tail(test_drivers)
        /\ \/ th_pc'[j] = "execute" /\ th_env'[j] # <<>>
           \/ report'[j] = DeviceErrorMessage

testargs_of(config) ==
    IF config.testargs = 0 THEN "no config" :> <<>>
    ELSE heap[config.testargs]

\* C25: every step changes the testargs seen through at most one job's
\* config, and never the testargs seen through the task's config.
C25_ConfigMutationStaysInJob ==
    [][/\ testargs_of(task_config)' = testargs_of(task_config)
       /\ \E j \in ConfJobs :
              \A k \in ConfJobs \ {j} :
                  testargs_of(job_config[k])' = testargs_of(job_config[k])]_vars

\* C25 witness: both jobs have their config; job 1 has the retry tests
\* and a driver entry in its testargs, job 2 and the task still see the
\* task's class and test filters.
C25_OneJobMutated ==
    /\ job_config[1] # NoConfig
    /\ job_config[2] # NoConfig
    /\ testargs_of(job_config[1]) = ("class" :> <<"c2">>) @@
                                    ("test" :> <<"t1", "t2">>)
    /\ testargs_of(job_config[2]) = ("class" :> <<"c1">>) @@
                                    ("test" :> <<"t2">>)
    /\ testargs_of(task_config) = testargs_of(job_config[2])

\* ------------------------------------------------- properties of ParseSpec
RECURSIVE count_events(_, _)
count_events(list, event) ==
    IF list = <<>> THEN 0
    ELSE (IF Head(list) = event THEN 1 ELSE 0)
         + count_events(Tail(list), event)

\* C26: after a suites-start line followed at once by __done__(), the
\* listener has received exactly one suite-ended and one suites-ended call
\* and no suites scope is left open.
C26_DoneClosesSuiteAndSuites ==
    (parser_done /\ fed = <<"suites_start">>) =>
        /\ count_events(events, "suite_ended") = 1
        /\ count_events(events, "suites_ended") = 1
        /\ ~suites_is_running(current_suites)

\* ------------------------------------------- properties of RerunSpec, retries
\* C27: in the serial rerun a test is marked blocked only once the retry
\* budget of FAILED_RUN_TEST_ATTEMPTS is used up; while retries are left a
\* test that reported nothing stays first in the queue to be run again.
C27_BlockedOnlyAfterRetriesUsedUp ==
    [][\A t \in Tests :
           (t \notin blocked /\ t \in blocked') => rerun_attempt' = 0]_vars

suite_is_closed(list, p) ==
    \E q \in (p + 1)..Len(list) :
        /\ list[q] = "suite_end"
        /\ \A r \in (p + 1)..(q - 1) : list[r] \notin {"suite_start", "end"}

\* the labels as read: unbalanced when the starts and the ends do not
\* cancel out
unbalanced == Len(label_list[1]) > 0 /\ sum(label_list[1]) # 0

\* C29: when the suite marks read from the log are unbalanced, every suite
\* start of the list handed to the parser is followed by a suite end before
\* the next suite start and before the final end mark.
C29_EverySuiteStartClosed ==
    (js_pc = "analysed" /\ unbalanced) =>
        /\ message_list[Len(message_list)] = "end"
        /\ \A p \in DOMAIN message_list :
               message_list[p] = "suite_start" =>
                   suite_is_closed(message_list, p)

\* C29 witness: two suites started and none ended in the log, the timeout
\* was reached, and the list handed over has both suite ends and the end
\* mark.
C29_TwoSuiteEndsInserted ==
    /\ js_pc = "analysed"
    /\ ~is_suites_end
    /\ message_list = <<"start", "suite_start", "test", "suite_end",
                        "suite_start", "suite_end", "end">>


\* ------------------------------------------------- properties of ExistSpec
\* the device can serve the option: it is available or allocated, and has
\* the serial number and the label the option asks for
can_serve(option, d) ==
    /\ device_allocation_state[d] \in {"available", "allocated"}
    /\ (option.device_sn # <<>> =>
            \E i \in DOMAIN option.device_sn : option.device_sn[i] = device_sn[d])
    /\ (option.label # "" => option.label = label(d))

\* each option can be given a device of its own
can_be_matched ==
    \E f \in [DOMAIN device_options -> ExistDevices] :
        /\ \A i, k \in DOMAIN device_options : i # k => f[i] # f[k]
        /\ \A i \in DOMAIN device_options : can_serve(device_options[i], f[i])

\* C30 as stated: the call changes no allocation state and returns True
\* exactly when each option can be matched to a distinct device that is
\* available or allocated.
C30_TrueExactlyWhenMatchable ==
    [][exist_pc' = "checked" =>
          /\ UNCHANGED device_allocation_state
          /\ exist_result' <=> can_be_matched]_vars

\* C30, amended: the call changes no allocation state; when it returns
\* True each option can be matched to a distinct device that is available
\* or allocated, and for a single option it returns True exactly then.
C30_TrueOnlyWhenMatchable ==
    [][exist_pc' = "checked" =>
          /\ UNCHANGED device_allocation_state
          /\ exist_result' => can_be_matched
          /\ Len(device_options) = 1 => (exist_result' <=> can_be_matched)]_vars

\* C30 witness: two options were served by two devices, one of them
\* allocated to another job.
C30_ServedByAllocatedDevice ==
    /\ exist_pc = "checked"
    /\ exist_result
    /\ Len(device_options) = 2
    /\ device_allocation_state[1] = "allocated"
    /\ device_allocation_state[2] = "available"


\* -------------------------------------------------- properties of ConcSpec
\* C31: every worker that raised is logged by the callback, no exception
\* reaches the caller, and the call returns the list of all results.
C31_WorkerExceptionNotReraised ==
    /\ \A w \in Workers : worker[w] = "raised" => w \in logged
    /\ cc_pc # "raised"
    /\ cc_pc = "returned" => Len(result_list) = NWorkers


\* -------------------------------------------------- properties of ExecSpec
\* the call that a step makes
ExecCalled == exec_calls' = exec_calls + 1

\* C32 as stated: a call with an unsupported verb or an unsupported
\* execution type logs an error, runs no task and returns.
C32_UnsupportedLoggedNotRaised ==
    [][(/\ ExecCalled
        /\ \/ exec_command_args'[1] # "run"
           \/ exec_command_args'[2] \notin TestExecTypes) =>
          /\ exec_outcome' = "returned"
          /\ exec_log' = exec_log + 1
          /\ exec_tasks' = exec_tasks]_vars

\* C32, amended: "run" with an unsupported execution type logs an error,
\* runs no task and returns; any other verb raises ParamError, with no
\* log line of exec_command and no task run.
C32_BadTypeLoggedBadVerbRaised ==
    [][ExecCalled =>
          /\ (exec_command_args'[1] = "run"
              /\ exec_command_args'[2] \notin TestExecTypes) =>
                 /\ exec_outcome' = "returned"
                 /\ exec_log' = exec_log + 1
                 /\ exec_tasks' = exec_tasks
          /\ exec_command_args'[1] # "run" =>
                 /\ exec_outcome' = "ParamError"
                 /\ exec_log' = exec_log
                 /\ exec_tasks' = exec_tasks]_vars

\* C32 witness: the console went on after a bad execution type: two such
\* calls were logged and returned, then a task was run.
C32_LoggedThenRun ==
    /\ exec_calls = 3
    /\ exec_log = 2
    /\ exec_tasks = 1
    /\ exec_outcome = "returned"
    /\ exec_command_args = <<"run", "device">>


\* --------------------------------------------------- properties of XmlSpec
\* C33: the message attribute, unescaped as an XML parser does, is the
\* original message.
C33_MessageRoundTrip ==
    xml_pc = "parsed" => parsed_message = error_message


\* --------------------------------------------------- properties of SptSpec
\* the months of a patch level, counted from year 0
spt_months(spt) == spt.year * 12 + spt.month

\* C34 as stated: the three examples, with the kit value written "X_...".
C34_ExamplesWithPrefix ==
    spt_pc = "compared" =>
        /\ (kit_spt = Spt("X_", 2024, 3) /\ device_spt = Spt("", 2024, 1))
               => spt_result = "True"
        /\ (kit_spt = Spt("X_", 2024, 3) /\ device_spt = Spt("", 2023, 12))
               => spt_result = "True"
        /\ (kit_spt = Spt("X_", 2024, 7) /\ device_spt = Spt("", 2024, 1))
               => spt_result = "False"

\* C34, amended: the kit patch level is accepted exactly when both values
\* are dates and the kit's month is at most two months after the device's:
\* in the same year an interval of -11..2 (3 is not accepted), in the
\* following year an interval + 12 of 1 or 2, and any earlier year.  A
\* value that is no date gives False.
C34_AcceptedUpToTwoMonthsNewer ==
    spt_pc = "compared" =>
        /\ spt_result = "True" <=>
               /\ kit_spt # NoSpt /\ ~strptime_raises(kit_spt)
               /\ device_spt # NoSpt /\ ~strptime_raises(device_spt)
               /\ spt_months(kit_spt) - spt_months(device_spt) <= 2
        /\ (kit_spt.prefix # "" \/ device_spt.prefix # "")
               => spt_result = "False"

\* C34 witness: a kit level of 2024-03 was accepted for a device of
\* 2024-01.
C34_TwoMonthsNewerAccepted ==
    /\ spt_pc = "compared"
    /\ kit_spt = Spt("", 2024, 3)
    /\ device_spt = Spt("", 2024, 1)
    /\ spt_result = "True"


\* --------------------------------------------------- properties of InstSpec
\* C35: after ERROR_GET_BUNDLE_INSTALLER_FAILED the install command is
\* retried up to MAX_WAIT_COUNT times, with wait_count * 10 seconds slept
\* before the wait_count-th retry, and no retry follows a success: when
\* every retry failed, MAX_WAIT_COUNT retries were made.
C35_RetriesUpToMaxWaitCount ==
    /\ Len(exec_outs) <= MAX_WAIT_COUNT
    /\ Len(sleeps) = Len(exec_outs)
    /\ \A i \in 1..Len(sleeps) : sleeps[i] = i * 10
    /\ \A i \in 1..Len(exec_outs) :
           exec_outs[i] = "Success" => i = Len(exec_outs)
    /\ (/\ inst_pc = "after_loop"
        /\ exec_outs[Len(exec_outs)] # "Success")
           => Len(exec_outs) = MAX_WAIT_COUNT


\* ------------------------------------------- SchedSpec: the monitor's ids
\* C36: every message QueueMonitorThread takes from the queue carries a
\* thread id registered in current_driver_threads, so the pop never raises
\* KeyError and the monitor thread does not die in its loop.
C36_MonitorKnowsEveryId ==
    /\ mon_pc # "crashed"
    /\ (mon_pc = "get" /\ message_queue # <<>>)
           => Head(message_queue) \in current_driver_threads


\* ----------------------------------------------- properties of DevLiveSpec
\* C37: apply_device, release_device and the listener's event handling
\* never block each other for good on lock_con and list_con: every call
\* that was entered returns.
C37_EveryCallReturns ==
    \A p \in Procs : InCall(p) ~> ~InCall(p)

\* C37 witness: an applier holds lock_con and waits for list_con, which a
\* releasing thread holds while it waits for lock_con.
C37_OppositeLockOrders ==
    \E p, q \in Appliers :
        /\ pc[p] \in {"scan1", "scan2"}
        /\ lock_con = p
        /\ list_con = q
        /\ pc[q] = "hde_notify"


\* C38: a serial that a job holds is not allocated to a second job before
\* the first job releases it, also across a disconnect and reconnect of
\* the device: no two callers hold devices with the same serial, and no
\* second Device object with a held serial is available in devices_list.
C38_SerialHeldOnce ==
    /\ \A p, q \in Appliers :
           (p # q /\ held[p] # 0 /\ held[q] # 0)
               => device_sn[held[p]] # device_sn[held[q]]
    /\ \A p \in Appliers, d \in Range(devices_list) :
           (held[p] # 0 /\ d # held[p]
                /\ device_allocation_state[d] = "available")
               => device_sn[d] # device_sn[held[p]]


\* --------------------------------------------------- properties of EnvSpec
\* C39: the device_id values of the devices of one Environment are
\* pairwise distinct, whether a number comes from the position of the
\* serial in the configured list or from the counter of the label.
C39_DeviceIdsDistinct ==
    \A i, j \in DOMAIN env_devices :
        i # j => device_id[env_devices[i]] # device_id[env_devices[j]]


\* ------------------------------------- ActionSpec: the recover_state gate
\* a step that calls the decorated function
FuncCalled == invocations' = invocations + 1

\* C40: while a device's recover_state is false, a decorated action on it
\* returns None and the function is not called; recover_state goes back
\* to true only by device_connected for that device; and an action begun
\* with recover_state true goes on to call the function.
C40_GatedUntilDeviceConnected ==
    [][/\ (da_pc = "idle" /\ da_pc' # "idle" /\ ~recover_state[act_dev])
              => /\ da_pc' = "returned"
                 /\ invocations' = 0
                 /\ da_exception' = ""
       /\ (da_pc = "returned" /\ invocations = 0) => ~FuncCalled
       /\ \A d \in Devices :
              (~recover_state[d] /\ recover_state'[d])
                  => \E st \in {"ONLINE", "NOT_AVAILABLE"} :
                         ActionDeviceConnected(d, st)
       /\ (da_pc = "idle" /\ da_pc' # "idle" /\ recover_state[act_dev])
              => da_pc' \in {"once", "loop"}
       /\ da_pc \in {"once", "loop"} => (da_pc' = da_pc \/ FuncCalled)]_vars

\* C40 witness: on the device of the job, whose recover_state a failed
\* recovery has set to false, an action called with abort_on_exception has
\* returned without a call of the function.
C40_ReturnedWithoutCall ==
    /\ act_dev # 0
    /\ ~recover_state[act_dev]
    /\ da_pc = "returned"
    /\ da_kwargs.abort_on_exception
    /\ invocations = 0
    /\ da_exception = ""

====
